---------------------------- MODULE Spec2Model ----------------------------
(***************************************************************************)
(* Model of the transaction-composition and state-resolution logic of the  *)
(* mosaic SDK (packages/sdk): resolveTokenAccount, getMintDetails, the     *)
(* four access-list operations and createMintToTransaction.                *)
(*                                                                         *)
(* The on-chain account store is the variable `chain`; one invocation of   *)
(* an operation runs at a time and advances one step per network call      *)
(* (each `await rpc...send()` of the source is a step boundary).           *)
(***************************************************************************)
EXTENDS Naturals, Integers, Sequences, FiniteSets, TLC

VARIABLES
  chain,     \* the account store: address -> account info (getAccountInfo)
  pc,        \* position of the running invocation
  args,      \* arguments of the running invocation
  res,       \* result of resolveTokenAccount held by the caller
  md,        \* mintInfo inside getMintDetails, then its result at the caller
  listPda,   \* list address derived by the caller (NoAddr until derived)
  list,      \* the List object being assembled by getList
  built,     \* instructions constructed so far, in construction order
  calls,     \* network requests and address derivations made so far
  outcome,   \* what the invocation returned or threw
  applied,   \* the operations whose instructions were executed on-chain
  peer       \* the locals of a second invocation in flight, while the first
             \* one runs

vars == <<chain, pc, args, res, md, listPda, list, built, calls, outcome,
          applied, peer>>

---------------------------------------------------------------------------
(* Programs and addresses.                                                 *)

TOKEN_2022_PROGRAM_ADDRESS == "Token2022"
SYSTEM_PROGRAM_ADDRESS == "System"
TOKEN_ACL_PROGRAM_ID == "TokenAcl"
ABL_PROGRAM_ID == "Abl"
OTHER_PROGRAM == "Other"

\* Addresses are tuples of strings; derived addresses carry their seeds, so
\* that two derivations agree exactly when program and seeds agree.
NoAddr == <<>>
M1 == <<"M1">>
M2 == <<"M2">>
W1 == <<"W1">>
T1 == <<"T1">>
P1 == <<"P1">>
A1 == <<"A1">>
A2 == <<"A2">>
FA_ACL == <<"FA_ACL">>
FA_USER == <<"FA_USER">>
FA_GONE == <<"FA_GONE">>

Mints == {M1, M2}
Accounts == {W1, T1, P1}
Authorities == {A1, A2}
FreezeAuthorities == {FA_ACL, FA_USER, FA_GONE}

\* gill: getAssociatedTokenAccountAddress(mint, owner, tokenProgram)
getAssociatedTokenAccountAddress(mint, owner, tokenProgram) ==
  <<"ata", owner[1], tokenProgram, mint[1]>>

\* @token-acl/abl-sdk: findListConfigPda({authority, seed}, {programAddress})
findListConfigPda(authority, seed, programAddress) ==
  <<"list", programAddress, authority[1], seed[1]>>

\* @token-acl/abl-sdk: findWalletEntryPda({walletAddress, listConfig}, ...)
findWalletEntryPda(walletAddress, listConfig, programAddress) ==
  <<"entry", programAddress>> \o listConfig \o walletAddress

\* @token-acl/sdk: findMintConfigPda({mint}, {programAddress})
findMintConfigPda(mint, programAddress) ==
  <<"mintcfg", programAddress, mint[1]>>

Atas == {getAssociatedTokenAccountAddress(m, a, TOKEN_2022_PROGRAM_ADDRESS) :
           m \in Mints, a \in Accounts}
Lists == {findListConfigPda(au, m, ABL_PROGRAM_ID) : au \in Authorities, m \in Mints}

Addresses == Mints \cup Accounts \cup Authorities \cup FreezeAuthorities
               \cup Atas \cup Lists

---------------------------------------------------------------------------
(* Account infos as rpc.getAccountInfo(..., jsonParsed) reports them.      *)

Absent == [exists |-> FALSE]
Raw(owner) == [exists |-> TRUE, owner |-> owner, parsed |-> FALSE]
Parsed(owner, info) ==
  [exists |-> TRUE, owner |-> owner, parsed |-> TRUE, info |-> info]

TokenInfo(mint, owner, state) == [mint |-> mint, owner |-> owner, state |-> state]
TokenStates == {"initialized", "frozen"}

DefaultAccountState(s) ==
  [extension |-> "defaultAccountState", state |-> [accountState |-> s]]
Pausable == [extension |-> "pausable", state |-> [paused |-> FALSE]]
ExtensionLists ==
  { <<>>,
    <<Pausable, DefaultAccountState("frozen")>>,
    <<DefaultAccountState("initialized")>> }

MintDecimals == 6

MintInfo(fa, exts) ==
  [decimals |-> MintDecimals, freezeAuthority |-> fa, extensions |-> exts]

Allow == "Allow"
Block == "Block"
Modes == {Allow, Block}
ListConfigInfo(mode, seed, authority) ==
  [mode |-> mode, seed |-> seed, authority |-> authority]

\* The states the mint under test can be in.
MintAccountStates ==
  {Absent, Raw(OTHER_PROGRAM)} \cup
  {Parsed(TOKEN_2022_PROGRAM_ADDRESS, MintInfo(fa, e)) :
     fa \in {NoAddr} \cup FreezeAuthorities, e \in ExtensionLists}

\* The states a token account address can be in.
TokenAccountStates(owner) ==
  {Raw(TOKEN_2022_PROGRAM_ADDRESS)} \cup
  {Parsed(TOKEN_2022_PROGRAM_ADDRESS, TokenInfo(m, owner, s)) :
     m \in Mints, s \in TokenStates}

ListAccountStates(au, m) ==
  {Absent} \cup {Parsed(ABL_PROGRAM_ID, ListConfigInfo(mode, m, au)) : mode \in Modes}

WalletAta == getAssociatedTokenAccountAddress(M1, W1, TOKEN_2022_PROGRAM_ADDRESS)
ListA1M1 == findListConfigPda(A1, M1, ABL_PROGRAM_ID)
ListA2M1 == findListConfigPda(A2, M1, ABL_PROGRAM_ID)

\* The address of a wallet's associated token account holds nothing, a
\* system account (lamports were sent to it before its creation) or the
\* token account.  Everything not listed in a chain is absent, except the
\* fixed accounts:
\* M2 is a plain Token-2022 mint without freeze authority, P1 an account of
\* an unrelated program, FA_ACL a Token ACL mint config, FA_USER a wallet,
\* and A2 runs a blocklist for M1.
BaseChain ==
  [a \in Addresses |->
     CASE a = M2 -> Parsed(TOKEN_2022_PROGRAM_ADDRESS, MintInfo(NoAddr, <<>>))
       [] a = P1 -> Raw(OTHER_PROGRAM)
       [] a = FA_ACL -> Raw(TOKEN_ACL_PROGRAM_ID)
       [] a = FA_USER -> Raw(SYSTEM_PROGRAM_ADDRESS)
       [] a = ListA2M1 -> Parsed(ABL_PROGRAM_ID, ListConfigInfo(Block, M1, A2))
       [] OTHER -> Absent]

Chains ==
  {[BaseChain EXCEPT ![M1] = m, ![W1] = w, ![T1] = t, ![WalletAta] = x,
                     ![ListA1M1] = l] :
     m \in MintAccountStates,
     w \in {Absent, Raw(SYSTEM_PROGRAM_ADDRESS)},
     t \in TokenAccountStates(W1),
     x \in {Absent, Raw(SYSTEM_PROGRAM_ADDRESS)} \cup
             {Parsed(TOKEN_2022_PROGRAM_ADDRESS, TokenInfo(M1, W1, s)) :
                s \in TokenStates},
     l \in ListAccountStates(A1, M1)}

\* rpc.getAccountInfo(address).send(): the account, or Absent for an
\* address nothing was ever created at.
getAccountInfo(c, address) ==
  IF address \in DOMAIN c THEN c[address] ELSE Absent

HasParsedInfo(acc) == acc.exists /\ acc.parsed

---------------------------------------------------------------------------
(* Instructions: what the external encoders are given.                     *)

\* gill/programs: getThawAccountInstruction({account, mint, owner}, ...)
getThawAccountInstruction(account, mint, owner, programAddress) ==
  [programAddress |-> programAddress, kind |-> "thawAccount",
   account |-> account, mint |-> mint, owner |-> owner]

\* gill/programs: getFreezeAccountInstruction({account, mint, owner}, ...)
getFreezeAccountInstruction(account, mint, owner, programAddress) ==
  [programAddress |-> programAddress, kind |-> "freezeAccount",
   account |-> account, mint |-> mint, owner |-> owner]

\* @token-acl/abl-sdk: getAddWalletInstruction
getAddWalletInstruction(authority, listConfig, wallet, walletEntry, programAddress) ==
  [programAddress |-> programAddress, kind |-> "addWallet",
   authority |-> authority, listConfig |-> listConfig, wallet |-> wallet,
   walletEntry |-> walletEntry]

\* @token-acl/abl-sdk: getRemoveWalletInstruction
getRemoveWalletInstruction(authority, listConfig, walletEntry, programAddress) ==
  [programAddress |-> programAddress, kind |-> "removeWallet",
   authority |-> authority, listConfig |-> listConfig,
   walletEntry |-> walletEntry]

\* @token-acl/sdk: getFreezeInstruction
getFreezeInstruction(authority, mintConfig, mint, tokenAccount, programAddress) ==
  [programAddress |-> programAddress, kind |-> "freeze",
   authority |-> authority, mintConfig |-> mintConfig, mint |-> mint,
   tokenAccount |-> tokenAccount]

\* @token-acl/sdk: createThawPermissionlessInstructionWithExtraMetas
createThawPermissionlessInstructionWithExtraMetas(authority, tokenAccount, mint, owner, program) ==
  [programAddress |-> program, kind |-> "thawPermissionless",
   authority |-> authority, tokenAccount |-> tokenAccount, mint |-> mint,
   tokenAccountOwner |-> owner]

\* gill/programs/token: getCreateAssociatedTokenIdempotentInstruction
getCreateAssociatedTokenIdempotentInstruction(owner, mint, ata, payer, tokenProgram) ==
  [programAddress |-> "AssociatedToken", kind |-> "createAtaIdempotent",
   owner |-> owner, mint |-> mint, ata |-> ata, payer |-> payer,
   tokenProgram |-> tokenProgram]

\* gill/programs/token: getMintToInstruction
getMintToInstruction(mint, mintAuthority, token, amount, programAddress) ==
  [programAddress |-> programAddress, kind |-> "mintTo", mint |-> mint,
   mintAuthority |-> mintAuthority, token |-> token, amount |-> amount]

\* @token-acl/abl-sdk: getCreateListInstruction
getCreateListInstruction(authority, listConfig, mode, seed, programAddress) ==
  [programAddress |-> programAddress, kind |-> "createList",
   authority |-> authority, listConfig |-> listConfig, mode |-> mode,
   seed |-> seed]

MembershipKinds == {"addWallet", "removeWallet"}
FreezeThawKinds == {"freeze", "thawPermissionless", "freezeAccount", "thawAccount"}

---------------------------------------------------------------------------
(* Results of a step of an async function.                                 *)

Return(v) == [kind |-> "return", value |-> v]
Throw(e) == [kind |-> "throw", error |-> e]
Await == [kind |-> "await"]

---------------------------------------------------------------------------
(* resolveTokenAccount (transactionUtil).                                  *)

\* Mutant of ResolveNotCreated: a missing account is reported thawed.
ResolveNotCreatedThawed(ata) ==
  [tokenAccount |-> ata, isInitialized |-> FALSE, isFrozen |-> FALSE]

\* The result for a wallet whose associated token account was not found.
ResolveNotCreated(ata) ==
  [tokenAccount |-> ata, isInitialized |-> FALSE, isFrozen |-> TRUE]

\* Mutant of ResolveSuppliedAccount: the parsed mint is not compared.
ResolveSuppliedAccountAnyMint(accountInfo, account, mint) ==
  IF accountInfo.exists /\ accountInfo.owner = TOKEN_2022_PROGRAM_ADDRESS
  THEN IF accountInfo.parsed
       THEN Return([tokenAccount |-> account, isInitialized |-> TRUE,
                    isFrozen |-> accountInfo.info.state = "frozen"])
       ELSE Throw("ParseTokenAccount")
  ELSE IF accountInfo.exists /\ accountInfo.owner # SYSTEM_PROGRAM_ADDRESS
       THEN Throw("InvalidAccount")
       ELSE Await

\* Mutant of ResolveSuppliedAccount: the owner of a non-token account is
\* not checked.
ResolveSuppliedAccountAnyOwner(accountInfo, account, mint) ==
  IF accountInfo.exists /\ accountInfo.owner = TOKEN_2022_PROGRAM_ADDRESS
  THEN IF accountInfo.parsed
       THEN IF accountInfo.info.mint = mint
            THEN Return([tokenAccount |-> account, isInitialized |-> TRUE,
                         isFrozen |-> accountInfo.info.state = "frozen"])
            ELSE Throw("MintMismatch")
       ELSE Throw("ParseTokenAccount")
  ELSE Await

\* From the first getAccountInfo to just before the derivation of the
\* associated token account.
ResolveSuppliedAccount(accountInfo, account, mint) ==
  IF accountInfo.exists /\ accountInfo.owner = TOKEN_2022_PROGRAM_ADDRESS
  THEN IF accountInfo.parsed
       THEN IF accountInfo.info.mint = mint
            THEN Return([tokenAccount |-> account, isInitialized |-> TRUE,
                         isFrozen |-> accountInfo.info.state = "frozen"])
            ELSE Throw("MintMismatch")
       ELSE Throw("ParseTokenAccount")
  ELSE IF accountInfo.exists /\ accountInfo.owner # SYSTEM_PROGRAM_ADDRESS
       THEN Throw("InvalidAccount")
       ELSE Await

\* Mutant of ResolveDerivedAccount: the state of the derived account is not
\* read, and the account is reported thawed.
ResolveDerivedAccountStateIgnored(ataInfo, ata) ==
  IF HasParsedInfo(ataInfo)
  THEN [tokenAccount |-> ata, isInitialized |-> TRUE, isFrozen |-> FALSE]
  ELSE ResolveNotCreated(ata)

\* From the second getAccountInfo (of the derived address) to the return.
ResolveDerivedAccount(ataInfo, ata) ==
  IF HasParsedInfo(ataInfo)
  THEN [tokenAccount |-> ata, isInitialized |-> TRUE,
        isFrozen |-> ataInfo.info.state = "frozen"]
  ELSE ResolveNotCreated(ata)

---------------------------------------------------------------------------
(* getMintDetails and isDefaultAccountStateSetFrozen (transactionUtil).    *)

\* Mutant of MintDetailsFromMint: an account without parsed data is taken
\* for a mint without freeze authority or extensions.
MintDetailsFromMintUnparsedAccepted(accountInfo) ==
  IF ~accountInfo.exists THEN Throw("MintNotFound")
  ELSE IF ~accountInfo.parsed
       THEN Return([decimals |-> 0, freezeAuthority |-> NoAddr,
                    extensions |-> <<>>, usesTokenAcl |-> FALSE])
  ELSE IF accountInfo.info.freezeAuthority # NoAddr THEN Await
  ELSE Return([decimals |-> accountInfo.info.decimals,
               freezeAuthority |-> accountInfo.info.freezeAuthority,
               extensions |-> accountInfo.info.extensions,
               usesTokenAcl |-> FALSE])

\* From the mint's getAccountInfo to the freeze-authority lookup.
MintDetailsFromMint(accountInfo) ==
  IF ~accountInfo.exists THEN Throw("MintNotFound")
  ELSE IF ~accountInfo.parsed THEN Throw("ParseMint")
  ELSE IF accountInfo.info.freezeAuthority # NoAddr THEN Await
  ELSE Return([decimals |-> accountInfo.info.decimals,
               freezeAuthority |-> accountInfo.info.freezeAuthority,
               extensions |-> accountInfo.info.extensions,
               usesTokenAcl |-> FALSE])

\* Mutant of MintDetailsFromFreezeAuthority: any existing freeze-authority
\* account counts as Token ACL's.
MintDetailsFromFreezeAuthorityAnyOwner(mintInfo, freezeAuthorityAccountInfo) ==
  IF ~freezeAuthorityAccountInfo.exists THEN Throw("FreezeAuthorityNotFound")
  ELSE Return([decimals |-> mintInfo.decimals,
               freezeAuthority |-> mintInfo.freezeAuthority,
               extensions |-> mintInfo.extensions,
               usesTokenAcl |-> TRUE])

\* Mutant of MintDetailsFromFreezeAuthority: a freeze authority with no
\* account makes the mint a legacy mint.
MintDetailsFromFreezeAuthorityMissingIsLegacy(mintInfo, freezeAuthorityAccountInfo) ==
  Return([decimals |-> mintInfo.decimals,
          freezeAuthority |-> mintInfo.freezeAuthority,
          extensions |-> mintInfo.extensions,
          usesTokenAcl |-> /\ freezeAuthorityAccountInfo.exists
                           /\ freezeAuthorityAccountInfo.owner = TOKEN_ACL_PROGRAM_ID])

\* From the freeze authority's getAccountInfo to the return.
MintDetailsFromFreezeAuthority(mintInfo, freezeAuthorityAccountInfo) ==
  IF ~freezeAuthorityAccountInfo.exists THEN Throw("FreezeAuthorityNotFound")
  ELSE Return([decimals |-> mintInfo.decimals,
               freezeAuthority |-> mintInfo.freezeAuthority,
               extensions |-> mintInfo.extensions,
               usesTokenAcl |->
                 freezeAuthorityAccountInfo.owner = TOKEN_ACL_PROGRAM_ID])

\* Mutant of isDefaultAccountStateSetFrozen: the extension's state is not
\* compared.
isDefaultAccountStateSet(extensions) ==
  \E i \in 1..Len(extensions) :
     extensions[i].extension = "defaultAccountState"

\* extensions.some(ext => ext.extension === 'defaultAccountState' &&
\*                        ext.state.accountState === 'frozen')
isDefaultAccountStateSetFrozen(extensions) ==
  \E i \in 1..Len(extensions) :
     /\ extensions[i].extension = "defaultAccountState"
     /\ extensions[i].state.accountState = "frozen"

\* const enableSrfc37 = usesTokenAcl && isDefaultAccountStateSetFrozen(extensions)
enableSrfc37(m) == m.usesTokenAcl /\ isDefaultAccountStateSetFrozen(m.extensions)

---------------------------------------------------------------------------
(* The access-list operations (management/allowlist.ts, blocklist.ts).     *)

AddToAllowlist == "addToAllowlist"
RemoveFromAllowlist == "removeFromAllowlist"
AddToBlocklist == "addToBlocklist"
RemoveFromBlocklist == "removeFromBlocklist"
MintTo == "mintTo"

AccessListOps == {AddToAllowlist, RemoveFromAllowlist, AddToBlocklist, RemoveFromBlocklist}
AllowlistOps == {AddToAllowlist, RemoveFromAllowlist}
BlocklistOps == {AddToBlocklist, RemoveFromBlocklist}
GrantOps == {AddToAllowlist, RemoveFromBlocklist}
RevokeOps == {AddToBlocklist, RemoveFromAllowlist}
Ops == AccessListOps \cup {MintTo}

\* abl/utils.ts: getListConfigPda({authority, mint})
getListConfigPda(authority, mint) ==
  findListConfigPda(authority, mint, ABL_PROGRAM_ID)

\* Mutant of DeriveListConfig: the blocklist operations take the mint as
\* the authority seed and the authority as the list seed.
DeriveListConfigSeedsSwapped(op, authority, mint) ==
  IF op \in {AddToAllowlist, RemoveFromAllowlist}
  THEN getListConfigPda(authority, mint)
  ELSE findListConfigPda(mint, authority, ABL_PROGRAM_ID)

\* The list address each operation derives on the gated path.
DeriveListConfig(op, authority, mint) ==
  IF op = AddToAllowlist
  THEN getListConfigPda(authority, mint)
  ELSE findListConfigPda(authority, mint, ABL_PROGRAM_ID)

\* list.mode === Mode.Allow
isAblAllowlist(l) == l.mode = Allow

\* list.mode === Mode.Block
isAblBlocklist(l) == l.mode = Block

\* Mutant of ModeGuard: the guard is not evaluated.
ModeGuardSkipped(op, l) == TRUE

\* The guard each operation evaluates on the fetched list.
ModeGuard(op, l) ==
  IF op \in AllowlistOps THEN isAblAllowlist(l) ELSE isAblBlocklist(l)

\* Mutant of LegacyInstructions: freeze and thaw are exchanged.
LegacyInstructionsSwapped(op, tokenAccount, mint, accountSigner) ==
  IF op \in GrantOps
  THEN <<getFreezeAccountInstruction(tokenAccount, mint, accountSigner,
                                     TOKEN_2022_PROGRAM_ADDRESS)>>
  ELSE <<getThawAccountInstruction(tokenAccount, mint, accountSigner,
                                   TOKEN_2022_PROGRAM_ADDRESS)>>

\* The single instruction returned when enableSrfc37 is false.
LegacyInstructions(op, tokenAccount, mint, accountSigner) ==
  IF op \in GrantOps
  THEN <<getThawAccountInstruction(tokenAccount, mint, accountSigner,
                                   TOKEN_2022_PROGRAM_ADDRESS)>>
  ELSE <<getFreezeAccountInstruction(tokenAccount, mint, accountSigner,
                                     TOKEN_2022_PROGRAM_ADDRESS)>>

\* abl/list.ts: getAddWalletInstructions({authority, list, wallet})
getAddWalletInstructions(authority, l, wallet) ==
  <<getAddWalletInstruction(authority, l, wallet,
                            findWalletEntryPda(wallet, l, ABL_PROGRAM_ID),
                            ABL_PROGRAM_ID)>>

\* abl/list.ts: getRemoveWalletInstructions({authority, list, wallet})
getRemoveWalletInstructions(authority, l, wallet) ==
  <<getRemoveWalletInstruction(authority, l,
                               findWalletEntryPda(wallet, l, ABL_PROGRAM_ID),
                               ABL_PROGRAM_ID)>>

\* Mutant of MembershipInstructions: every operation adds the wallet.
MembershipInstructionsAlwaysAdd(op, authority, l, wallet) ==
  getAddWalletInstructions(authority, l, wallet)

\* The membership instructions each operation builds after the guard.
MembershipInstructions(op, authority, l, wallet) ==
  IF op \in {AddToAllowlist, AddToBlocklist}
  THEN getAddWalletInstructions(authority, l, wallet)
  ELSE getRemoveWalletInstructions(authority, l, wallet)

\* Mutant of AddToAllowlistThaws: isInitialized is not consulted.
AddToAllowlistThawsWhenFrozen(r) == r.isFrozen

\* allowlist.ts: isFrozen && isInitialized ? thaw : []
AddToAllowlistThaws(r) == r.isFrozen /\ r.isInitialized

\* allowlist.ts: if (isInitialized && isFrozen && useSrfc37) freeze
RemoveFromAllowlistFreezes(r, useSrfc37) ==
  r.isInitialized /\ r.isFrozen /\ useSrfc37

\* blocklist.ts: isInitialized && !isFrozen ? freeze : []
AddToBlocklistFreezes(r) == r.isInitialized /\ ~r.isFrozen

\* blocklist.ts: if (isInitialized && isFrozen && useSrfc37) thaw
RemoveFromBlocklistThaws(r, useSrfc37) ==
  r.isInitialized /\ r.isFrozen /\ useSrfc37

\* Mutant of ReturnedInstructions: the freeze/thaw is spread first.
ReturnedInstructionsReversed(membership, followUp) == followUp \o membership

\* return [...membershipInstructions, ...freezeOrThawInstructions]
ReturnedInstructions(membership, followUp) == membership \o followUp

\* Which follow-up, if any, an operation builds after its membership
\* instruction: "freeze", "thaw" or "none".
FollowUp(op, r, useSrfc37) ==
  CASE op = AddToAllowlist ->
         IF AddToAllowlistThaws(r) THEN "thaw" ELSE "none"
    [] op = RemoveFromAllowlist ->
         IF RemoveFromAllowlistFreezes(r, useSrfc37) THEN "freeze" ELSE "none"
    [] op = AddToBlocklist ->
         IF AddToBlocklistFreezes(r) THEN "freeze" ELSE "none"
    [] op = RemoveFromBlocklist ->
         IF RemoveFromBlocklistThaws(r, useSrfc37) THEN "thaw" ELSE "none"

---------------------------------------------------------------------------
(* getCreateListInstructions (abl/list.ts).                                *)

CreateListOp == "createList"

\* An optional argument the caller left out.
Undefined == "undefined"

\* The numbering of the generated enum Mode { Allow, AllowAllEoas, Block }.
ModeOrdinal(mode) == IF mode = Allow THEN 0 ELSE 2

\* input.mode || Mode.Allow: the right operand stands in for every falsy
\* left operand, the number 0 included.
ModeOrAllow(mode) ==
  IF mode = Undefined THEN Allow
  ELSE IF ModeOrdinal(mode) = 0 THEN Allow
  ELSE mode

\* Mutant of getCreateListInstructions: the caller's mode is dropped.
getCreateListInstructionsModeDropped(authority, mint, mode) ==
  LET listConfigPda == findListConfigPda(authority, mint, ABL_PROGRAM_ID)
  IN [instructions |->
        <<getCreateListInstruction(authority, listConfigPda, Allow, mint,
                                   ABL_PROGRAM_ID)>>,
      listConfig |-> listConfigPda]

\* getCreateListInstructions({authority, mint, mode})
getCreateListInstructions(authority, mint, mode) ==
  LET listConfigPda == findListConfigPda(authority, mint, ABL_PROGRAM_ID)
  IN [instructions |->
        <<getCreateListInstruction(authority, listConfigPda, ModeOrAllow(mode),
                                   mint, ABL_PROGRAM_ID)>>,
      listConfig |-> listConfigPda]

---------------------------------------------------------------------------
(* getFreezeInstructions (token-acl/freeze.ts) and                         *)
(* getThawPermissionlessInstructions (token-acl/thawPermissionless.ts).    *)

\* Mutant of FreezeFromTokenAccount: an account that cannot be read gives
\* no instruction instead of an error.
FreezeFromTokenAccountLenient(accountInfo, authority, tokenAccount) ==
  IF ~HasParsedInfo(accountInfo) THEN Return(<<>>)
  ELSE Return(<<getFreezeInstruction(
                  authority,
                  findMintConfigPda(accountInfo.info.mint, TOKEN_ACL_PROGRAM_ID),
                  accountInfo.info.mint, tokenAccount, TOKEN_ACL_PROGRAM_ID)>>)

\* getFreezeInstructions: from its own getAccountInfo(tokenAccount) on.
FreezeFromTokenAccount(accountInfo, authority, tokenAccount) ==
  IF ~accountInfo.exists THEN Throw("TokenAccountNotFound")
  ELSE IF ~accountInfo.parsed THEN Throw("ParseTokenAccountData")
  ELSE Return(<<getFreezeInstruction(
                  authority,
                  findMintConfigPda(accountInfo.info.mint, TOKEN_ACL_PROGRAM_ID),
                  accountInfo.info.mint, tokenAccount, TOKEN_ACL_PROGRAM_ID)>>)

getThawPermissionlessInstructions(authority, mint, tokenAccount, tokenAccountOwner) ==
  <<createThawPermissionlessInstructionWithExtraMetas(
      authority, tokenAccount, mint, tokenAccountOwner, TOKEN_ACL_PROGRAM_ID)>>

---------------------------------------------------------------------------
(* createMintToTransaction (management/mint.ts).                           *)

Amounts == {0 - 1, 2}

RECURSIVE Pow10(_)
Pow10(n) == IF n = 0 THEN 1 ELSE 10 * Pow10(n - 1)

\* decimalAmountToRaw(decimalAmount, decimals)
decimalAmountToRaw(decimalAmount, decimals) ==
  IF decimals < 0 \/ decimals > 9 THEN Throw("DecimalsOutOfRange")
  ELSE IF decimalAmount * Pow10(decimals) < 0 THEN Throw("AmountNegative")
  ELSE Return(decimalAmount * Pow10(decimals))

\* isFrozen && enableSrfc37 ? thaw : []
MintToThaws(r, m) == r.isFrozen /\ enableSrfc37(m)

---------------------------------------------------------------------------
(* The running invocation.                                                 *)

Unset == [unset |-> TRUE]
NoOutcome == [status |-> "none"]

\* The locals of an invocation that has not been called.
NotStarted ==
  [pc |-> "idle", args |-> Unset, res |-> Unset, md |-> Unset,
   listPda |-> NoAddr, list |-> Unset, built |-> <<>>, calls |-> <<>>,
   outcome |-> NoOutcome]
Succeeded(instructions) == [status |-> "ok", instructions |-> instructions]
\* A rejected promise hands the caller the error and nothing else.
Failed(e) == [status |-> "error", error |-> e, instructions |-> <<>>]

\* Mutant of createTransaction: the instructions are taken in reverse.
createTransactionReversed(feePayer, latestBlockhash, instructions) ==
  [status |-> "ok", feePayer |-> feePayer, version |-> "legacy",
   latestBlockhash |-> latestBlockhash,
   instructions |-> [i \in 1..Len(instructions) |->
                       instructions[Len(instructions) + 1 - i]]]

\* createTransaction({feePayer, version: 'legacy', latestBlockhash, instructions})
createTransaction(feePayer, latestBlockhash, instructions) ==
  [status |-> "ok", feePayer |-> feePayer, version |-> "legacy",
   latestBlockhash |-> latestBlockhash, instructions |-> instructions]

Fetched(address) == [call |-> "getAccountInfo", address |-> address]
Derived(what, address) == [call |-> "derive", what |-> what, address |-> address]
FetchedListConfig(address) == [call |-> "fetchListConfig", address |-> address]
Scanned(listConfig) == [call |-> "getProgramAccounts", listConfig |-> listConfig]
FetchedBlockhash(value) == [call |-> "getLatestBlockhash", value |-> value]

\* The blockhashes rpc.getLatestBlockhash() can answer with.
Blockhashes == {"blockhash1", "blockhash2"}

Init ==
  /\ chain \in Chains
  /\ pc = "idle"
  /\ args = Unset
  /\ res = Unset
  /\ md = Unset
  /\ listPda = NoAddr
  /\ list = Unset
  /\ built = <<>>
  /\ calls = <<>>
  /\ outcome = NoOutcome
  /\ applied = <<>>
  /\ peer = NotStarted

\* A caller invokes one of the get*Instructions functions, or
\* createMintToTransaction.
Start ==
  /\ pc = "idle"
  /\ \E op \in Ops, mint \in Mints, account \in Accounts, authority \in Authorities :
       \E amount \in (IF op = MintTo THEN Amounts ELSE {0}),
          feePayer \in (IF op = MintTo THEN Authorities ELSE {authority}) :
         args' = [op |-> op, mint |-> mint, account |-> account,
                  authority |-> authority, amount |-> amount,
                  feePayer |-> feePayer]
  /\ pc' = "resolveAccount"
  /\ res' = Unset
  /\ md' = Unset
  /\ listPda' = NoAddr
  /\ list' = Unset
  /\ built' = <<>>
  /\ calls' = <<>>
  /\ outcome' = NoOutcome
  /\ UNCHANGED <<chain, applied, peer>>

\* The invocation ends by throwing e.
\* Mutant of Fail: the caller is handed what had been built so far.
FailWithPartialOutput(e) ==
  /\ pc' = "done"
  /\ outcome' = [status |-> "error", error |-> e, instructions |-> built]

\* An await that rejects, or a throw: the async function ends there.
Fail(e) ==
  /\ pc' = "done"
  /\ outcome' = Failed(e)

\* resolveTokenAccount: getAccountInfo(account) and what follows it up to
\* the second getAccountInfo.
ResolveAccount ==
  /\ pc = "resolveAccount"
  /\ LET r == ResolveSuppliedAccount(getAccountInfo(chain, args.account),
                                     args.account, args.mint)
     IN /\ calls' = Append(calls, Fetched(args.account))
        /\ CASE r.kind = "return" ->
                  /\ res' = r.value
                  /\ pc' = "mintDetails"
                  /\ UNCHANGED outcome
             [] r.kind = "throw" ->
                  /\ Fail(r.error)
                  /\ UNCHANGED res
             [] r.kind = "await" ->
                  /\ pc' = "resolveAta"
                  /\ UNCHANGED <<res, outcome>>
  /\ UNCHANGED <<chain, applied, peer, args, md, listPda, list, built>>

\* resolveTokenAccount: derivation of the associated token account, its
\* getAccountInfo and the return.
ResolveAta ==
  /\ pc = "resolveAta"
  /\ LET ata == getAssociatedTokenAccountAddress(args.mint, args.account,
                                                 TOKEN_2022_PROGRAM_ADDRESS)
     IN /\ calls' = calls \o <<Derived("ata", ata), Fetched(ata)>>
        /\ res' = ResolveDerivedAccount(getAccountInfo(chain, ata), ata)
  /\ pc' = "mintDetails"
  /\ UNCHANGED <<chain, applied, peer, args, md, listPda, list, built, outcome>>

\* getMintDetails: getAccountInfo(mint) and what follows it up to the
\* lookup of the freeze authority.
MintDetails ==
  /\ pc = "mintDetails"
  /\ LET r == MintDetailsFromMint(getAccountInfo(chain, args.mint))
     IN /\ calls' = Append(calls, Fetched(args.mint))
        /\ CASE r.kind = "return" ->
                  /\ md' = r.value
                  /\ pc' = "branch"
                  /\ UNCHANGED outcome
             [] r.kind = "throw" ->
                  /\ Fail(r.error)
                  /\ UNCHANGED md
             [] r.kind = "await" ->
                  /\ md' = getAccountInfo(chain, args.mint).info
                  /\ pc' = "freezeAuthority"
                  /\ UNCHANGED outcome
  /\ UNCHANGED <<chain, applied, peer, args, res, listPda, list, built>>

\* getMintDetails: getAccountInfo(freezeAuthority) and the return.
FreezeAuthority ==
  /\ pc = "freezeAuthority"
  /\ LET mintInfo == md
         r == MintDetailsFromFreezeAuthority(
                mintInfo, getAccountInfo(chain, mintInfo.freezeAuthority))
     IN /\ calls' = Append(calls, Fetched(mintInfo.freezeAuthority))
        /\ CASE r.kind = "return" ->
                  /\ md' = r.value
                  /\ pc' = "branch"
                  /\ UNCHANGED outcome
             [] r.kind = "throw" ->
                  /\ Fail(r.error)
                  /\ UNCHANGED md
  /\ UNCHANGED <<chain, applied, peer, args, res, listPda, list, built>>

\* Mutant of Branch: the list address is derived before the legacy return.
BranchDerivesListFirst ==
  /\ pc = "branch"
  /\ args.op \in AccessListOps
  /\ listPda' = DeriveListConfig(args.op, args.authority, args.mint)
  /\ calls' = Append(calls, Derived("listConfig", listPda'))
  /\ IF ~enableSrfc37(md)
     THEN /\ outcome' = Succeeded(LegacyInstructions(args.op, res.tokenAccount,
                                                     args.mint, args.authority))
          /\ pc' = "done"
     ELSE /\ pc' = "listConfig"
          /\ UNCHANGED outcome
  /\ UNCHANGED <<chain, applied, peer, args, res, md, list, built>>

\* An access-list operation after getMintDetails: enableSrfc37 is computed
\* and the legacy instruction returned, or the list address is derived and
\* isAblAllowlist / isAblBlocklist called.
Branch ==
  /\ pc = "branch"
  /\ args.op \in AccessListOps
  /\ IF ~enableSrfc37(md)
     THEN /\ outcome' = Succeeded(LegacyInstructions(args.op, res.tokenAccount,
                                                     args.mint, args.authority))
          /\ pc' = "done"
          /\ UNCHANGED <<listPda, calls>>
     ELSE /\ listPda' = DeriveListConfig(args.op, args.authority, args.mint)
          /\ calls' = Append(calls, Derived("listConfig", listPda'))
          /\ pc' = "listConfig"
          /\ UNCHANGED outcome
  /\ UNCHANGED <<chain, applied, peer, args, res, md, list, built>>

\* getList -> getListConfig -> fetchListConfig(rpc, listConfig)
\* Mutant of ListConfig: a list that is not on chain passes for a list of
\* the mode the operation wants.
ListConfigAbsentPasses ==
  /\ pc = "listConfig"
  /\ calls' = Append(calls, FetchedListConfig(listPda))
  /\ LET acc == getAccountInfo(chain, listPda)
     IN list' = [listConfig |-> listPda,
                 mode |-> IF acc.exists THEN acc.info.mode
                          ELSE IF args.op \in AllowlistOps THEN Allow ELSE Block,
                 seed |-> args.mint, authority |-> args.authority]
  /\ pc' = "listScan"
  /\ UNCHANGED <<chain, applied, peer, args, res, md, listPda, built, outcome>>

\* getList: fetchListConfig(rpc, listConfig), which rejects when the
\* account does not exist.
ListConfig ==
  /\ pc = "listConfig"
  /\ calls' = Append(calls, FetchedListConfig(listPda))
  /\ LET acc == getAccountInfo(chain, listPda)
     IN IF ~acc.exists
        THEN /\ Fail("ListConfigNotFound")
             /\ UNCHANGED list
        ELSE /\ list' = [listConfig |-> listPda, mode |-> acc.info.mode,
                         seed |-> acc.info.seed, authority |-> acc.info.authority]
             /\ pc' = "listScan"
             /\ UNCHANGED outcome
  /\ UNCHANGED <<chain, applied, peer, args, res, md, listPda, built>>

---------------------------------------------------------------------------
(* Account data as bytes, and its base64 text in an RPC response.          *)

\* An address is 32 bytes wide.
AddressWidth == 32

RECURSIVE SetToSeq(_)
SetToSeq(S) ==
  IF S = {} THEN <<>>
  ELSE LET x == CHOOSE y \in S : TRUE IN <<x>> \o SetToSeq(S \ {x})

\* A program id as an address.
ProgramAddress(p) == <<"program", p>>
ProgramAddresses ==
  {ProgramAddress(p) : p \in {TOKEN_2022_PROGRAM_ADDRESS, SYSTEM_PROGRAM_ADDRESS,
                               TOKEN_ACL_PROGRAM_ID, ABL_PROGRAM_ID}}

\* The addresses that bytes can hold, numbered from 1.
AddressTable == SetToSeq(Addresses \cup ProgramAddresses)
AddressNumber(a) == CHOOSE n \in 1..Len(AddressTable) : AddressTable[n] = a

\* The bytes of an address: its number, then zeros.
AddressBytes(a) ==
  [i \in 1..AddressWidth |-> IF i = 1 THEN AddressNumber(a) ELSE 0]

\* The address that bytes spell; bytes of no address of the model read as
\* an address unknown to it.
UnknownAddress == <<"unknown">>
BytesAddress(bytes) ==
  IF \E n \in 1..Len(AddressTable) : AddressBytes(AddressTable[n]) = bytes
  THEN AddressTable[CHOOSE n \in 1..Len(AddressTable) :
                      AddressBytes(AddressTable[n]) = bytes]
  ELSE UnknownAddress

Zeros(n) == [i \in 1..n |-> 0]

\* WalletEntry account: discriminator, wallet address, list address.
getWalletEntryEncoder(info) ==
  <<2>> \o AddressBytes(info.walletAddress) \o AddressBytes(info.listConfig)

\* ListConfig account: discriminator, authority, seed, mode, wallet count.
getListConfigEncoder(info) ==
  <<1>> \o AddressBytes(info.authority) \o AddressBytes(info.seed)
        \o <<ModeOrdinal(info.mode)>> \o Zeros(8)

\* The data of an account of the ABL program.
AccountData(acc) ==
  IF ~(acc.exists /\ acc.parsed) THEN <<>>
  ELSE IF "walletAddress" \in DOMAIN acc.info THEN getWalletEntryEncoder(acc.info)
  ELSE IF "mode" \in DOMAIN acc.info THEN getListConfigEncoder(acc.info)
  ELSE <<>>

\* getWalletEntryDecoder().decode(data)
getWalletEntryDecoder(data) ==
  [discriminator |-> data[1],
   walletAddress |-> BytesAddress(SubSeq(data, 2, 1 + AddressWidth)),
   listConfig |-> BytesAddress(SubSeq(data, 2 + AddressWidth, 1 + 2 * AddressWidth))]

Base64Alphabet ==
  <<"A", "B", "C", "D", "E", "F", "G", "H", "I", "J", "K", "L", "M",
    "N", "O", "P", "Q", "R", "S", "T", "U", "V", "W", "X", "Y", "Z",
    "a", "b", "c", "d", "e", "f", "g", "h", "i", "j", "k", "l", "m",
    "n", "o", "p", "q", "r", "s", "t", "u", "v", "w", "x", "y", "z",
    "0", "1", "2", "3", "4", "5", "6", "7", "8", "9", "+", "/">>

Base64Char(n) == Base64Alphabet[n + 1]
Base64Index(ch) == CHOOSE n \in 0..63 : Base64Alphabet[n + 1] = ch

\* The base64 text of bytes, one character per element: every three
\* bytes give four characters, and "=" fills the last group.
Base64Encode(b) ==
  LET byte(k) == IF k <= Len(b) THEN b[k] ELSE 0
  IN [i \in 1..4 * ((Len(b) + 2) \div 3) |->
        LET g == 3 * ((i - 1) \div 4)
        IN CASE i % 4 = 1 -> Base64Char(byte(g + 1) \div 4)
             [] i % 4 = 2 -> Base64Char((byte(g + 1) % 4) * 16 + byte(g + 2) \div 16)
             [] i % 4 = 3 -> IF g + 2 > Len(b) THEN "="
                             ELSE Base64Char((byte(g + 2) % 16) * 4
                                             + byte(g + 3) \div 64)
             [] OTHER -> IF g + 3 > Len(b) THEN "="
                         ELSE Base64Char(byte(g + 3) % 64)]

\* Buffer.from(text, 'base64'): every four characters give three bytes,
\* less one for each "=" at the end.
Base64Decode(t) ==
  LET groups == Len(t) \div 4
      last == 4 * groups
      padding == IF groups = 0 THEN 0
                 ELSE IF t[last - 1] = "=" THEN 2
                 ELSE IF t[last] = "=" THEN 1 ELSE 0
      digit(k) == IF t[k] = "=" THEN 0 ELSE Base64Index(t[k])
  IN [j \in 1..(3 * groups - padding) |->
        LET g == 4 * ((j - 1) \div 3)
        IN CASE j % 3 = 1 -> digit(g + 1) * 4 + digit(g + 2) \div 16
             [] j % 3 = 2 -> (digit(g + 2) % 16) * 16 + digit(g + 3) \div 4
             [] OTHER -> (digit(g + 3) % 4) * 64 + digit(g + 4)]

\* A memcmp filter: the data holds `bytes` from `offset` on.
Memcmp(data, offset, bytes) ==
  /\ offset + Len(bytes) <= Len(data)
  /\ SubSeq(data, offset + 1, offset + Len(bytes)) = bytes

NoMemcmp == [offset |-> 0, bytes |-> <<>>]

\* rpc.getProgramAccounts(program, {encoding: 'base64', filters}): the
\* accounts of the program that pass the filters, their data as base64.
getProgramAccounts(c, program, dataSize, memcmp) ==
  {[pubkey |-> a,
    account |-> [data |-> <<Base64Encode(AccountData(c[a])), "base64">>]] :
     a \in {x \in DOMAIN c :
              /\ c[x].exists /\ c[x].owner = program
              /\ Len(AccountData(c[x])) = dataSize
              /\ Memcmp(AccountData(c[x]), memcmp.offset, memcmp.bytes)}}

\* The orders in which a scan can return the accounts.
Orders(S) ==
  {f \in [1..Cardinality(S) -> S] :
     \A i, j \in 1..Cardinality(S) : i # j => f[i] # f[j]}

---------------------------------------------------------------------------
(* getList (abl/list.ts).                                                  *)

GetListOp == "getList"

\* Mutant of WalletEntries: the back-reference is not compared.
WalletEntriesOfAnyList(c, listConfig) ==
  getProgramAccounts(c, ABL_PROGRAM_ID, 65, NoMemcmp)

\* rpc.getProgramAccounts(ABL_PROGRAM_ID, {dataSize: 65, memcmp at 33}):
\* the wallet entries whose back-reference is listConfig.
WalletEntries(c, listConfig) ==
  getProgramAccounts(c, ABL_PROGRAM_ID, 65,
                     [offset |-> 33, bytes |-> AddressBytes(listConfig)])

\* accounts.map(account => decode(Buffer.from(data[0], 'base64')).walletAddress)
ListWallets(accounts) ==
  [i \in 1..Len(accounts) |->
     getWalletEntryDecoder(Base64Decode(accounts[i].account.data[1])).walletAddress]

\* getList's scan and return, the mode guard, the membership instruction
\* and the decision about the freeze or thaw that follows.
ListScan ==
  /\ pc = "listScan"
  /\ calls' = Append(calls, Scanned(listPda))
  /\ \E accounts \in Orders(WalletEntries(chain, listPda)) :
       LET l == [listConfig |-> list.listConfig, mode |-> list.mode,
                 seed |-> list.seed, authority |-> list.authority,
                 wallets |-> ListWallets(accounts)]
       IN /\ list' = l
          /\ IF args.op = GetListOp
             THEN /\ outcome' = [status |-> "ok", instructions |-> <<>>,
                                 value |-> l]
                  /\ pc' = "done"
                  /\ UNCHANGED built
             ELSE IF ~ModeGuard(args.op, l)
             THEN /\ Fail("WrongListMode")
                  /\ UNCHANGED built
             ELSE LET m == MembershipInstructions(args.op, args.authority,
                                                 listPda, args.account)
                      next == FollowUp(args.op, res, enableSrfc37(md))
                  IN /\ built' = m
                     /\ IF next = "none"
                        THEN /\ outcome' = Succeeded(ReturnedInstructions(m, <<>>))
                             /\ pc' = "done"
                        ELSE /\ pc' = next
                             /\ UNCHANGED outcome
  /\ UNCHANGED <<chain, applied, peer, args, res, md, listPda>>

\* getFreezeInstructions({rpc, authority, tokenAccount}) and the return of
\* add-to-blocklist / remove-from-allowlist.
Freeze ==
  /\ pc = "freeze"
  /\ calls' = Append(calls, Fetched(res.tokenAccount))
  /\ LET r == FreezeFromTokenAccount(getAccountInfo(chain, res.tokenAccount),
                                     args.authority, res.tokenAccount)
     IN IF r.kind = "throw"
        THEN /\ Fail(r.error)
             /\ UNCHANGED built
        ELSE /\ built' = built \o r.value
             /\ outcome' = Succeeded(ReturnedInstructions(built, r.value))
             /\ pc' = "done"
  /\ UNCHANGED <<chain, applied, peer, args, res, md, listPda, list>>

ResolvedExtraMetas(tokenAccount) ==
  [call |-> "resolveExtraMetas", tokenAccount |-> tokenAccount]

\* Mutant of Thaw: the thaw is placed after the instruction that follows it.
ThawPlacedLast ==
  /\ pc = "thaw"
  /\ calls' = Append(calls, ResolvedExtraMetas(res.tokenAccount))
  /\ LET t == getThawPermissionlessInstructions(args.authority, args.mint,
                                                res.tokenAccount, args.account)
     IN IF args.op = MintTo
        THEN /\ built' = built \o
                           <<getMintToInstruction(
                               args.mint, args.authority, res.tokenAccount,
                               decimalAmountToRaw(args.amount, md.decimals).value,
                               TOKEN_2022_PROGRAM_ADDRESS)>> \o t
             /\ pc' = "blockhash"
             /\ UNCHANGED outcome
        ELSE /\ built' = built \o t
             /\ outcome' = Succeeded(ReturnedInstructions(built, t))
             /\ pc' = "done"
  /\ UNCHANGED <<chain, applied, peer, args, res, md, listPda, list>>

\* getThawPermissionlessInstructions({authority, mint, tokenAccount,
\* tokenAccountOwner, rpc}) and what follows it in the caller.
Thaw ==
  /\ pc = "thaw"
  /\ calls' = Append(calls, ResolvedExtraMetas(res.tokenAccount))
  /\ LET t == getThawPermissionlessInstructions(args.authority, args.mint,
                                                res.tokenAccount, args.account)
     IN IF args.op = MintTo
        THEN /\ built' = built \o t \o
                           <<getMintToInstruction(
                               args.mint, args.authority, res.tokenAccount,
                               decimalAmountToRaw(args.amount, md.decimals).value,
                               TOKEN_2022_PROGRAM_ADDRESS)>>
             /\ pc' = "blockhash"
             /\ UNCHANGED outcome
        ELSE /\ built' = built \o t
             /\ outcome' = Succeeded(ReturnedInstructions(built, t))
             /\ pc' = "done"
  /\ UNCHANGED <<chain, applied, peer, args, res, md, listPda, list>>

\* createMintToTransaction after getMintDetails: the amount is converted,
\* the create-account instruction built and the thaw decided.
MintToCompose ==
  /\ pc = "branch"
  /\ args.op = MintTo
  /\ LET raw == decimalAmountToRaw(args.amount, md.decimals)
         create == getCreateAssociatedTokenIdempotentInstruction(
                     args.account, args.mint, res.tokenAccount, args.feePayer,
                     TOKEN_2022_PROGRAM_ADDRESS)
     IN IF raw.kind = "throw"
        THEN /\ Fail(raw.error)
             /\ UNCHANGED built
        ELSE IF MintToThaws(res, md)
        THEN /\ built' = <<create>>
             /\ pc' = "thaw"
             /\ UNCHANGED outcome
        ELSE /\ built' = <<create,
                           getMintToInstruction(args.mint, args.authority,
                                                res.tokenAccount, raw.value,
                                                TOKEN_2022_PROGRAM_ADDRESS)>>
             /\ pc' = "blockhash"
             /\ UNCHANGED outcome
  /\ UNCHANGED <<chain, applied, peer, args, res, md, listPda, list, calls>>

\* rpc.getLatestBlockhash() and createTransaction.
Blockhash ==
  /\ pc = "blockhash"
  /\ \E latestBlockhash \in Blockhashes :
       /\ calls' = Append(calls, FetchedBlockhash(latestBlockhash))
       /\ outcome' = createTransaction(args.feePayer, latestBlockhash, built)
  /\ pc' = "done"
  /\ UNCHANGED <<chain, applied, peer, args, res, md, listPda, list, built>>

\* A caller invokes getCreateListInstructions, which derives the address
\* and returns without a network request. The fee payer is the payer that
\* getCreateListTransaction is given when it makes the call.
CreateList ==
  /\ pc = "idle"
  /\ \E mint \in Mints, authority \in Authorities, mode \in Modes \cup {Undefined},
        payer \in Authorities :
       LET r == getCreateListInstructions(authority, mint, mode)
       IN /\ args' = [op |-> CreateListOp, mint |-> mint, account |-> NoAddr,
                      authority |-> authority, amount |-> 0,
                      feePayer |-> payer, mode |-> mode]
          /\ calls' = <<Derived("listConfig", r.listConfig)>>
          /\ built' = r.instructions
          /\ outcome' = [status |-> "ok", instructions |-> r.instructions,
                         listConfig |-> r.listConfig]
  /\ pc' = "done"
  /\ UNCHANGED <<chain, applied, peer, res, md, listPda, list>>

\* A caller invokes getList({rpc, listConfig}).
GetList ==
  /\ pc = "idle"
  /\ \E listConfig \in Lists :
       /\ args' = [op |-> GetListOp, mint |-> NoAddr, account |-> NoAddr,
                   authority |-> NoAddr, amount |-> 0, feePayer |-> NoAddr,
                   listConfig |-> listConfig]
       /\ listPda' = listConfig
  /\ pc' = "listConfig"
  /\ calls' = <<>>
  /\ UNCHANGED <<chain, applied, peer, res, md, list, built, outcome>>

---------------------------------------------------------------------------
(* getAllListConfigs (abl/list.ts).                                        *)

GetAllListConfigsOp == "getAllListConfigs"

\* Mode (enum of the list program): Allow, AllowAllEoas, Block.
AllowAllEoas == "AllowAllEoas"
ModeOfOrdinal(n) == IF n = 0 THEN Allow ELSE IF n = 1 THEN AllowAllEoas ELSE Block
ModeCount == 3

\* Number(ch) of a one-character string, as an element of a Uint8Array:
\* a decimal digit is its value, any other character is NaN and stores 0.
DecimalDigits == <<"0", "1", "2", "3", "4", "5", "6", "7", "8", "9">>
CharToUint8(ch) ==
  IF \E d \in 1..Len(DecimalDigits) : DecimalDigits[d] = ch
  THEN (CHOOSE d \in 1..Len(DecimalDigits) : DecimalDigits[d] = ch) - 1
  ELSE 0

\* Uint8Array.from(text): one element per character of the text.
Uint8ArrayFrom(text) == [i \in 1..Len(text) |-> CharToUint8(text[i])]

\* The bytes that decoding the text as base64 gives, as getList does.
ListConfigBytesDecoded(account) == Base64Decode(account.account.data[1])

\* const data = Uint8Array.from(account.account.data[0])
ListConfigBytes(account) == Uint8ArrayFrom(account.account.data[1])

\* getListConfigDecoder().decode(data); the enum decoder rejects a mode
\* byte that is no variant.
getListConfigDecoder(data) ==
  IF Len(data) < 74 \/ data[2 + 2 * AddressWidth] >= ModeCount
  THEN [ok |-> FALSE]
  ELSE [ok |-> TRUE,
        discriminator |-> data[1],
        authority |-> BytesAddress(SubSeq(data, 2, 1 + AddressWidth)),
        seed |-> BytesAddress(SubSeq(data, 2 + AddressWidth, 1 + 2 * AddressWidth)),
        mode |-> ModeOfOrdinal(data[2 + 2 * AddressWidth])]

\* accounts.map(account => ({listConfig: account.pubkey, mode, seed, authority}))
AllListConfigs(accounts) ==
  [i \in 1..Len(accounts) |->
     LET listConfig == getListConfigDecoder(ListConfigBytes(accounts[i]))
     IN IF listConfig.ok
        THEN [ok |-> TRUE, listConfig |-> accounts[i].pubkey,
              mode |-> listConfig.mode, seed |-> listConfig.seed,
              authority |-> listConfig.authority]
        ELSE [ok |-> FALSE]]

\* A caller invokes getAllListConfigs({rpc}): one scan for the accounts of
\* the size of a list configuration, each decoded.
GetAllListConfigs ==
  /\ pc = "idle"
  /\ args' = [op |-> GetAllListConfigsOp, mint |-> NoAddr, account |-> NoAddr,
              authority |-> NoAddr, amount |-> 0, feePayer |-> NoAddr]
  /\ calls' = <<[call |-> "getProgramAccounts", dataSize |-> 74]>>
  /\ \E accounts \in Orders(getProgramAccounts(chain, ABL_PROGRAM_ID, 74, NoMemcmp)) :
       LET l == AllListConfigs(accounts)
       IN IF \A i \in 1..Len(l) : l[i].ok
          THEN outcome' = [status |-> "ok", instructions |-> <<>>, value |-> l]
          ELSE outcome' = [status |-> "error", error |-> "EnumDiscriminatorOutOfRange"]
  /\ pc' = "done"
  /\ UNCHANGED <<chain, applied, peer, res, md, listPda, list, built>>

\* The caller has its result; the next invocation may start.
Finish ==
  /\ pc \in {"done", "assembled"}
  /\ pc' = "idle"
  /\ args' = Unset
  /\ res' = Unset
  /\ md' = Unset
  /\ listPda' = NoAddr
  /\ list' = Unset
  /\ built' = <<>>
  /\ calls' = <<>>
  /\ outcome' = NoOutcome
  /\ UNCHANGED <<chain, applied, peer>>

Next ==
  \/ Start
  \/ ResolveAccount
  \/ ResolveAta
  \/ MintDetails
  \/ FreezeAuthority
  \/ Branch
  \/ ListConfig
  \/ ListScan
  \/ Freeze
  \/ Thaw
  \/ MintToCompose
  \/ Blockhash
  \/ CreateList
  \/ GetList
  \/ GetAllListConfigs
  \/ Finish

Spec == Init /\ [][Next]_vars

---------------------------------------------------------------------------
(* The transaction builders: create*Transaction of allowlist.ts and        *)
(* blocklist.ts, get*Transaction of abl/list.ts.  Each awaits its          *)
(* get*Instructions call, then fetches the blockhash and assembles.        *)

AddWalletOp == "addWallet"
RemoveWalletOp == "removeWallet"
WalletOps == {AddWalletOp, RemoveWalletOp}

\* The operations that have a transaction builder around get*Instructions.
BuilderOps == AccessListOps \cup WalletOps \cup {CreateListOp}

\* A caller invokes getAddWalletInstructions or getRemoveWalletInstructions,
\* which derive the entry address and return without a network request.
WalletInstructions ==
  /\ pc = "idle"
  /\ \E op \in WalletOps, l \in Lists, wallet \in Accounts,
        authority \in Authorities, payer \in Authorities :
       LET instructions ==
             IF op = AddWalletOp
             THEN getAddWalletInstructions(authority, l, wallet)
             ELSE getRemoveWalletInstructions(authority, l, wallet)
       IN /\ args' = [op |-> op, mint |-> NoAddr, account |-> wallet,
                      authority |-> authority, amount |-> 0,
                      feePayer |-> payer, list |-> l]
          /\ calls' = <<Derived("walletEntry",
                                findWalletEntryPda(wallet, l, ABL_PROGRAM_ID))>>
          /\ built' = instructions
          /\ outcome' = Succeeded(instructions)
  /\ pc' = "done"
  /\ UNCHANGED <<chain, applied, peer, res, md, listPda, list>>

\* feePayer: authoritySigner in the four access-list builders, input.payer
\* in the builders of abl/list.ts.
TransactionFeePayer(a) ==
  IF a.op \in AccessListOps THEN a.authority ELSE a.feePayer

\* getCreateListTransaction passes authority and mint only.
BuilderCall(a) == a.op = CreateListOp => a.mode = Undefined

\* The builder has the instructions of its get*Instructions call: it
\* fetches the latest blockhash and calls createTransaction.
AssembleTransaction ==
  /\ pc = "done"
  /\ outcome.status = "ok"
  /\ args.op \in BuilderOps
  /\ BuilderCall(args)
  /\ \E latestBlockhash \in Blockhashes :
       /\ calls' = Append(calls, FetchedBlockhash(latestBlockhash))
       /\ outcome' = [transaction |->
                        createTransaction(TransactionFeePayer(args),
                                          latestBlockhash, outcome.instructions)]
                     @@ outcome
  /\ pc' = "assembled"
  /\ UNCHANGED <<chain, applied, peer, args, res, md, listPda, list, built>>

NextBuilders == Next \/ WalletInstructions \/ AssembleTransaction

SpecBuilders == Init /\ [][NextBuilders]_vars

---------------------------------------------------------------------------
(* transactionToB58 / transactionToB64 (transactionUtil.ts): the message   *)
(* bytes of the compiled transaction as text.                              *)

MaxInstructions == 2

AccountMeta(address, signer, writable) ==
  [address |-> address, signer |-> signer, writable |-> writable]

RECURSIVE LittleEndian(_, _)
LittleEndian(n, width) ==
  IF width = 0 THEN <<>> ELSE <<n % 256>> \o LittleEndian(n \div 256, width - 1)

\* The accounts of an instruction of the token program, in its order.
InstructionAccounts(ix) ==
  IF ix.kind = "mintTo"
  THEN <<AccountMeta(ix.mint, FALSE, TRUE), AccountMeta(ix.token, FALSE, TRUE),
         AccountMeta(ix.mintAuthority, TRUE, FALSE)>>
  ELSE <<AccountMeta(ix.account, FALSE, TRUE), AccountMeta(ix.mint, FALSE, FALSE),
         AccountMeta(ix.owner, TRUE, FALSE)>>

\* The data of an instruction of the token program: its discriminator and,
\* for mintTo, the amount as u64.
InstructionData(ix) ==
  IF ix.kind = "mintTo" THEN <<7>> \o LittleEndian(ix.amount, 8)
  ELSE IF ix.kind = "freezeAccount" THEN <<10>>
  ELSE <<11>>

\* Every account a transaction names: the fee payer, then each
\* instruction's accounts and program.
RECURSIVE TransactionMetas(_)
TransactionMetas(instructions) ==
  IF instructions = <<>> THEN <<>>
  ELSE InstructionAccounts(Head(instructions))
       \o <<AccountMeta(ProgramAddress(Head(instructions).programAddress),
                        FALSE, FALSE)>>
       \o TransactionMetas(Tail(instructions))

IsSigner(metas, a) == \E i \in 1..Len(metas) : metas[i].address = a /\ metas[i].signer
IsWritable(metas, a) == \E i \in 1..Len(metas) : metas[i].address = a /\ metas[i].writable

\* The place of an account among the static accounts: the fee payer, the
\* writable signers, the readonly signers, the writable accounts, the
\* readonly accounts, each group in address order.
AccountRank(metas, feePayer, a) ==
  (IF a = feePayer THEN 0
   ELSE IF IsSigner(metas, a) /\ IsWritable(metas, a) THEN 1
   ELSE IF IsSigner(metas, a) THEN 2
   ELSE IF IsWritable(metas, a) THEN 3
   ELSE 4) * 256 + AddressNumber(a)

RECURSIVE SortByRank(_, _, _)
SortByRank(S, metas, feePayer) ==
  IF S = {} THEN <<>>
  ELSE LET a == CHOOSE x \in S :
                  \A y \in S : AccountRank(metas, feePayer, x)
                                 <= AccountRank(metas, feePayer, y)
       IN <<a>> \o SortByRank(S \ {a}, metas, feePayer)

IndexOf(seq, x) == (CHOOSE i \in 1..Len(seq) : seq[i] = x) - 1

RECURSIVE Flatten(_)
Flatten(seqs) == IF seqs = <<>> THEN <<>> ELSE Head(seqs) \o Flatten(Tail(seqs))

BlockhashTable == SetToSeq(Blockhashes)
BlockhashBytes(h) ==
  [i \in 1..AddressWidth |-> IF i = 1 THEN IndexOf(BlockhashTable, h) + 1 ELSE 0]

\* The legacy message: header, static accounts, lifetime token and the
\* instructions with their accounts as indexes.
MessageBytes(tx, staticAccounts, metas) ==
  LET signers == {a \in 1..Len(staticAccounts) :
                    staticAccounts[a] = tx.feePayer
                    \/ IsSigner(metas, staticAccounts[a])}
      writables == {a \in 1..Len(staticAccounts) :
                      staticAccounts[a] = tx.feePayer
                      \/ IsWritable(metas, staticAccounts[a])}
      all == 1..Len(staticAccounts)
      header == <<Cardinality(signers),
                  Cardinality(signers \ writables),
                  Cardinality((all \ signers) \ writables)>>
      keys == Flatten([i \in 1..Len(staticAccounts) |->
                         AddressBytes(staticAccounts[i])])
      compiled(ix) ==
        <<IndexOf(staticAccounts, ProgramAddress(ix.programAddress)),
          Len(InstructionAccounts(ix))>>
        \o [i \in 1..Len(InstructionAccounts(ix)) |->
              IndexOf(staticAccounts, InstructionAccounts(ix)[i].address)]
        \o <<Len(InstructionData(ix))>> \o InstructionData(ix)
  IN header \o <<Len(staticAccounts)>> \o keys
     \o BlockhashBytes(tx.latestBlockhash)
     \o <<Len(tx.instructions)>>
     \o Flatten([i \in 1..Len(tx.instructions) |-> compiled(tx.instructions[i])])

\* Mutant of compileTransaction: the static accounts are in address order,
\* the fee payer among them.
compileTransactionAddressOrder(tx) ==
  LET metas == TransactionMetas(tx.instructions)
      addresses == {tx.feePayer} \cup {metas[i].address : i \in 1..Len(metas)}
  IN [messageBytes |->
        MessageBytes(tx, SortByRank(addresses, <<>>, NoAddr), metas)]

\* compileTransaction(transaction)
compileTransaction(tx) ==
  LET metas == TransactionMetas(tx.instructions)
      addresses == {tx.feePayer} \cup {metas[i].address : i \in 1..Len(metas)}
  IN [messageBytes |->
        MessageBytes(tx, SortByRank(addresses, metas, tx.feePayer), metas)]

Base58Alphabet ==
  <<"1", "2", "3", "4", "5", "6", "7", "8", "9",
    "A", "B", "C", "D", "E", "F", "G", "H", "J", "K", "L", "M", "N",
    "P", "Q", "R", "S", "T", "U", "V", "W", "X", "Y", "Z",
    "a", "b", "c", "d", "e", "f", "g", "h", "i", "j", "k", "m",
    "n", "o", "p", "q", "r", "s", "t", "u", "v", "w", "x", "y", "z">>

\* Long division of a number given by its digits in base `from`, most
\* significant first, by `to`: the quotient's digits and the remainder.
RECURSIVE LongDiv(_, _, _, _)
LongDiv(num, from, to, carry) ==
  IF Len(num) = 0 THEN [q |-> <<>>, r |-> carry]
  ELSE IF Len(num) = 1
  THEN [q |-> <<(carry * from + num[1]) \div to>>,
        r |-> (carry * from + num[1]) % to]
  ELSE LET h == Len(num) \div 2
           l == LongDiv(SubSeq(num, 1, h), from, to, carry)
           u == LongDiv(SubSeq(num, h + 1, Len(num)), from, to, l.r)
       IN [q |-> l.q \o u.q, r |-> u.r]

RECURSIVE LeadingZeros(_)
LeadingZeros(b) ==
  IF b = <<>> \/ b[1] # 0 THEN 0 ELSE 1 + LeadingZeros(Tail(b))

StripZeros(b) == SubSeq(b, LeadingZeros(b) + 1, Len(b))

\* One division of the conversion: the quotient replaces the number and
\* the remainder is the next digit, the least significant found first.
DivideOnce(st, from, to) ==
  IF st.num = <<>> THEN st
  ELSE LET d == LongDiv(st.num, from, to, 0)
       IN [num |-> StripZeros(d.q), digits |-> <<d.r>> \o st.digits]

\* Up to n divisions, one after the other, until the number is used up.
RECURSIVE Divide(_, _, _, _)
Divide(st, from, to, n) ==
  IF n = 0 THEN st
  ELSE IF n = 1 THEN DivideOnce(st, from, to)
  ELSE LET half == Divide(st, from, to, n \div 2)
       IN IF Len(half.num) = 0 THEN half
          ELSE Divide(half, from, to, n - n \div 2)

\* The digits in base `to` of a number given by its digits in base `from`:
\* a number of k digits is used up after at most k divisions.
Radix(num, from, to) ==
  Divide([num |-> num, digits |-> <<>>], from, to, Len(num)).digits

\* The same, three digits at a time: the division is by to * to * to and
\* each remainder gives three digits.
Convert(num, from, to) ==
  LET limbs == Radix(num, from, to * to * to)
  IN StripZeros([i \in 1..3 * Len(limbs) |->
                   LET limb == limbs[(i + 2) \div 3]
                   IN IF i % 3 = 1 THEN limb \div (to * to)
                      ELSE IF i % 3 = 2 THEN (limb \div to) % to
                      ELSE limb % to])

\* getBase58Decoder().decode(bytes): a "1" for every leading zero byte,
\* then the number the remaining bytes spell, in base 58.
Base58Encode(bytes) ==
  LET digits == [i \in 1..LeadingZeros(bytes) |-> 0]
                \o Convert(StripZeros(bytes), 256, 58)
  IN [i \in 1..Len(digits) |-> Base58Alphabet[digits[i] + 1]]

\* getBase58Encoder().encode(text)
Base58Decode(text) ==
  LET digits == [i \in 1..Len(text) |->
                   (CHOOSE d \in 1..58 : Base58Alphabet[d] = text[i]) - 1]
  IN [i \in 1..LeadingZeros(digits) |-> 0]
     \o Convert(StripZeros(digits), 58, 256)

transactionToB58(transaction) ==
  Base58Encode(compileTransaction(transaction).messageBytes)

transactionToB64(transaction) ==
  Base64Encode(compileTransaction(transaction).messageBytes)

\* The instructions a transaction to encode is made of.
EncodedInstructions ==
  {getMintToInstruction(M1, A1, WalletAta, 2000000, TOKEN_2022_PROGRAM_ADDRESS),
   getThawAccountInstruction(WalletAta, M1, A2, TOKEN_2022_PROGRAM_ADDRESS),
   getFreezeAccountInstruction(WalletAta, M1, A2, TOKEN_2022_PROGRAM_ADDRESS)}

InstructionSequences ==
  UNION {[1..n -> EncodedInstructions] : n \in 0..MaxInstructions}

EncodeOp == "transactionTo"

InitEncoding ==
  /\ chain = BaseChain
  /\ pc = "encode"
  /\ \E feePayer \in Authorities, latestBlockhash \in Blockhashes,
        instructions \in InstructionSequences :
       args = [op |-> EncodeOp,
               transaction |-> createTransaction(feePayer, latestBlockhash,
                                                 instructions)]
  /\ res = Unset
  /\ md = Unset
  /\ listPda = NoAddr
  /\ list = Unset
  /\ built = <<>>
  /\ calls = <<>>
  /\ outcome = NoOutcome
  /\ applied = <<>>
  /\ peer = NotStarted

\* A caller has transactionToB58 encode the transaction.
TransactionToB58 ==
  /\ pc = "encode"
  /\ "b58" \notin DOMAIN outcome
  /\ outcome' = [b58 |-> transactionToB58(args.transaction)] @@ outcome
  /\ UNCHANGED <<chain, applied, peer, pc, args, res, md, listPda, list, built, calls>>

\* A caller has transactionToB64 encode the transaction.
TransactionToB64 ==
  /\ pc = "encode"
  /\ "b64" \notin DOMAIN outcome
  /\ outcome' = [b64 |-> transactionToB64(args.transaction)] @@ outcome
  /\ UNCHANGED <<chain, applied, peer, pc, args, res, md, listPda, list, built, calls>>

NextEncoding == TransactionToB58 \/ TransactionToB64

SpecEncoding == InitEncoding /\ [][NextEncoding]_vars

---------------------------------------------------------------------------
(* Execution of a returned instruction list by the on-chain programs.  A   *)
(* transaction applies all of its instructions or none.                    *)

MaxApplied == 2

\* The account store with account v at address a.
SetAccount(c, a, v) ==
  [x \in DOMAIN c \cup {a} |-> IF x = a THEN v ELSE c[x]]

\* A membership entry: the wallet and the back-reference to its list.
WalletEntryInfo(wallet, listConfig) ==
  [walletAddress |-> wallet, listConfig |-> listConfig]

\* The token account with another state.
WithState(acc, state) ==
  Parsed(acc.owner, [acc.info EXCEPT !.state = state])

\* A wallet is a member iff its derived entry account exists.
IsMember(c, listConfig, wallet) ==
  getAccountInfo(c, findWalletEntryPda(wallet, listConfig, ABL_PROGRAM_ID)).exists

\* The gate of the permissionless thaw: the owner is on every allowlist of
\* the mint and on none of its blocklists.
GateAllows(c, mint, owner) ==
  \A l \in DOMAIN c :
     (c[l].exists /\ c[l].owner = ABL_PROGRAM_ID /\ c[l].parsed
        /\ "mode" \in DOMAIN c[l].info /\ c[l].info.seed = mint) =>
       (IsMember(c, l, owner) <=> c[l].info.mode = Allow)

\* Whether the program accepts instruction ix on store c.
Accepts(c, ix) ==
  CASE ix.kind = "addWallet" ->
         LET l == getAccountInfo(c, ix.listConfig)
         IN /\ l.exists /\ l.info.authority = ix.authority
            /\ ix.walletEntry = findWalletEntryPda(ix.wallet, ix.listConfig,
                                                   ABL_PROGRAM_ID)
            /\ ~getAccountInfo(c, ix.walletEntry).exists
    [] ix.kind = "removeWallet" ->
         LET l == getAccountInfo(c, ix.listConfig)
         IN /\ l.exists /\ l.info.authority = ix.authority
            /\ getAccountInfo(c, ix.walletEntry).exists
    [] ix.kind = "freeze" ->
         LET t == getAccountInfo(c, ix.tokenAccount)
         IN /\ HasParsedInfo(t) /\ t.info.mint = ix.mint
            /\ t.info.state = "initialized"
    [] ix.kind = "thawPermissionless" ->
         LET t == getAccountInfo(c, ix.tokenAccount)
         IN /\ HasParsedInfo(t) /\ t.info.mint = ix.mint
            /\ t.info.state = "frozen"
            /\ t.info.owner = ix.tokenAccountOwner
            /\ GateAllows(c, ix.mint, t.info.owner)
    [] ix.kind = "freezeAccount" ->
         LET t == getAccountInfo(c, ix.account)
             m == getAccountInfo(c, ix.mint)
         IN /\ HasParsedInfo(t) /\ t.info.mint = ix.mint
            /\ t.info.state = "initialized"
            /\ HasParsedInfo(m) /\ m.info.freezeAuthority = ix.owner
    [] ix.kind = "thawAccount" ->
         LET t == getAccountInfo(c, ix.account)
             m == getAccountInfo(c, ix.mint)
         IN /\ HasParsedInfo(t) /\ t.info.mint = ix.mint
            /\ t.info.state = "frozen"
            /\ HasParsedInfo(m) /\ m.info.freezeAuthority = ix.owner
    [] OTHER -> FALSE

\* The store after the accepted instruction ix.
Effect(c, ix) ==
  CASE ix.kind = "addWallet" ->
         SetAccount(c, ix.walletEntry,
                    Parsed(ABL_PROGRAM_ID, WalletEntryInfo(ix.wallet, ix.listConfig)))
    [] ix.kind = "removeWallet" -> SetAccount(c, ix.walletEntry, Absent)
    [] ix.kind = "freeze" ->
         SetAccount(c, ix.tokenAccount, WithState(c[ix.tokenAccount], "frozen"))
    [] ix.kind = "thawPermissionless" ->
         SetAccount(c, ix.tokenAccount, WithState(c[ix.tokenAccount], "initialized"))
    [] ix.kind = "freezeAccount" ->
         SetAccount(c, ix.account, WithState(c[ix.account], "frozen"))
    [] ix.kind = "thawAccount" ->
         SetAccount(c, ix.account, WithState(c[ix.account], "initialized"))
    [] OTHER -> c

\* The instructions of a transaction run in order; the first one refused
\* fails the whole transaction.
RECURSIVE Execute(_, _)
Execute(c, instrs) ==
  IF instrs = <<>> THEN [ok |-> TRUE, chain |-> c]
  ELSE IF ~Accepts(c, Head(instrs)) THEN [ok |-> FALSE, chain |-> c]
  ELSE Execute(Effect(c, Head(instrs)), Tail(instrs))

\* What `applied` keeps of an executed operation.
Applied(a, r, gated) ==
  [op |-> a.op, mint |-> a.mint, account |-> a.account,
   authority |-> a.authority, tokenAccount |-> r.tokenAccount,
   isInitialized |-> r.isInitialized, isFrozen |-> r.isFrozen,
   gated |-> gated]

\* The caller of an access-list operation signs and sends the instructions
\* it was returned, and the transaction lands.
Apply ==
  /\ pc = "done"
  /\ outcome.status = "ok"
  /\ args.op \in AccessListOps
  /\ Len(applied) < MaxApplied
  /\ LET r == Execute(chain, outcome.instructions)
     IN /\ r.ok
        /\ chain' = r.chain
  /\ applied' = Append(applied, Applied(args, res, enableSrfc37(md)))
  /\ pc' = "idle"
  /\ args' = Unset
  /\ res' = Unset
  /\ md' = Unset
  /\ listPda' = NoAddr
  /\ list' = Unset
  /\ built' = <<>>
  /\ calls' = <<>>
  /\ outcome' = NoOutcome
  /\ UNCHANGED peer

\* The stores the executions start from: M1 is gated (its freeze authority
\* is Token ACL's and accounts are frozen by default), A1 runs an allowlist
\* for it and A2 a blocklist, W1 is a wallet and T1 its token account.
GatedMint ==
  Parsed(TOKEN_2022_PROGRAM_ADDRESS,
         MintInfo(FA_ACL, <<Pausable, DefaultAccountState("frozen")>>))

GatedChains ==
  {c \in Chains :
     /\ c[M1] = GatedMint
     /\ c[W1] = Raw(SYSTEM_PROGRAM_ADDRESS)
     /\ HasParsedInfo(c[T1]) /\ c[T1].info.mint = M1
     /\ HasParsedInfo(c[ListA1M1]) /\ c[ListA1M1].info.mode = Allow}

\* The store c with wallet a member of the lists ls.
RECURSIVE WithEntries(_, _, _)
WithEntries(c, wallet, ls) ==
  IF ls = {} THEN c
  ELSE LET l == CHOOSE x \in ls : TRUE
       IN WithEntries(
            SetAccount(c, findWalletEntryPda(wallet, l, ABL_PROGRAM_ID),
                       Parsed(ABL_PROGRAM_ID, WalletEntryInfo(wallet, l))),
            wallet, ls \ {l})

\* W1 starts as a member of any of the two lists.
ApplyChains ==
  {WithEntries(c, W1, ls) : c \in GatedChains, ls \in SUBSET {ListA1M1, ListA2M1}}

InitApply ==
  /\ chain \in ApplyChains
  /\ pc = "idle"
  /\ args = Unset
  /\ res = Unset
  /\ md = Unset
  /\ listPda = NoAddr
  /\ list = Unset
  /\ built = <<>>
  /\ calls = <<>>
  /\ outcome = NoOutcome
  /\ applied = <<>>
  /\ peer = NotStarted

NextApply == Next \/ Apply

SpecApply == InitApply /\ [][NextApply]_vars

---------------------------------------------------------------------------
(* Other parties change the chain while an invocation is between two of    *)
(* its requests.                                                           *)

MaxChanges == 1

\* What the resolved token account can have become: closed, unreadable,
\* or an account of another mint.
ChangedTokenAccounts ==
  {Absent, Raw(TOKEN_2022_PROGRAM_ADDRESS),
   Parsed(TOKEN_2022_PROGRAM_ADDRESS, TokenInfo(M2, W1, "initialized"))}

\* A transaction of another party lands after resolveTokenAccount returned
\* and before the invocation ends.
TokenAccountChanges ==
  /\ pc \notin {"idle", "done", "assembled"}
  /\ res # Unset
  /\ Len(applied) < MaxChanges
  /\ \E v \in ChangedTokenAccounts :
       /\ chain[res.tokenAccount] # v
       /\ chain' = SetAccount(chain, res.tokenAccount, v)
       /\ applied' = Append(applied, [op |-> "external",
                                      account |-> res.tokenAccount, info |-> v])
  /\ UNCHANGED <<pc, args, res, md, listPda, list, built, calls, outcome, peer>>

InitRace ==
  /\ chain \in GatedChains
  /\ pc = "idle"
  /\ args = Unset
  /\ res = Unset
  /\ md = Unset
  /\ listPda = NoAddr
  /\ list = Unset
  /\ built = <<>>
  /\ calls = <<>>
  /\ outcome = NoOutcome
  /\ applied = <<>>
  /\ peer = NotStarted

NextRace == Next \/ TokenAccountChanges

SpecRace == InitRace /\ [][NextRace]_vars

---------------------------------------------------------------------------
(* Two invocations in flight. An async function runs from one await to the *)
(* next without interruption; at an await the event loop may continue the  *)
(* other invocation. The chain does not change.                            *)

Locals ==
  [pc |-> pc, args |-> args, res |-> res, md |-> md, listPda |-> listPda,
   list |-> list, built |-> built, calls |-> calls, outcome |-> outcome]

\* A caller invokes one of the four access-list operations.
StartAccessListOp ==
  /\ pc = "idle"
  /\ \E op \in AccessListOps, mint \in Mints, account \in Accounts,
        authority \in Authorities :
       args' = [op |-> op, mint |-> mint, account |-> account,
                authority |-> authority, amount |-> 0, feePayer |-> authority]
  /\ pc' = "resolveAccount"
  /\ res' = Unset
  /\ md' = Unset
  /\ listPda' = NoAddr
  /\ list' = Unset
  /\ built' = <<>>
  /\ calls' = <<>>
  /\ outcome' = NoOutcome
  /\ UNCHANGED <<chain, applied, peer>>

\* Mutant of Resume: the instructions built so far are kept in one place
\* for both invocations.
ResumeSharingBuilt ==
  /\ peer # Locals
  /\ peer' = Locals
  /\ pc' = peer.pc
  /\ args' = peer.args
  /\ res' = peer.res
  /\ md' = peer.md
  /\ listPda' = peer.listPda
  /\ list' = peer.list
  /\ calls' = peer.calls
  /\ outcome' = peer.outcome
  /\ UNCHANGED <<chain, applied, built>>

\* The running invocation waits at an await (or has not been called, or
\* has returned) and the other one is continued with its own locals.
Resume ==
  /\ peer # Locals
  /\ peer' = Locals
  /\ pc' = peer.pc
  /\ args' = peer.args
  /\ res' = peer.res
  /\ md' = peer.md
  /\ listPda' = peer.listPda
  /\ list' = peer.list
  /\ built' = peer.built
  /\ calls' = peer.calls
  /\ outcome' = peer.outcome
  /\ UNCHANGED <<chain, applied>>

InitPair ==
  /\ chain \in GatedChains
  /\ pc = "idle"
  /\ args = Unset
  /\ res = Unset
  /\ md = Unset
  /\ listPda = NoAddr
  /\ list = Unset
  /\ built = <<>>
  /\ calls = <<>>
  /\ outcome = NoOutcome
  /\ applied = <<>>
  /\ peer = NotStarted

NextPair ==
  \/ StartAccessListOp
  \/ ResolveAccount
  \/ ResolveAta
  \/ MintDetails
  \/ FreezeAuthority
  \/ Branch
  \/ ListConfig
  \/ ListScan
  \/ Freeze
  \/ Thaw
  \/ Finish
  \/ Resume

SpecPair == InitPair /\ [][NextPair]_vars

---------------------------------------------------------------------------
(* The mint templates (templates/arcadeToken.ts, tokenizedSecurity.ts,     *)
(* stablecoin.ts) and the builders they call.                              *)

ArcadeToken == "arcadeToken"
TokenizedSecurity == "tokenizedSecurity"
Stablecoin == "stablecoin"
Templates == {ArcadeToken, TokenizedSecurity, Stablecoin}
AclModes == {"allowlist", "blocklist"}

\* @token-acl/sdk: findThawExtraMetasAccountPda({mint}, {programAddress})
findThawExtraMetasAccountPda(mint, programAddress) ==
  <<"thawmetas", programAddress, mint[1]>>

\* token-acl/createConfig.ts: getCreateConfigInstructions
getCreateConfigInstructions(authority, mint, gatingProgram) ==
  LET mintConfigPda == findMintConfigPda(mint, TOKEN_ACL_PROGRAM_ID)
  IN [instructions |->
        <<[programAddress |-> TOKEN_ACL_PROGRAM_ID, kind |-> "createConfig",
           payer |-> authority, authority |-> authority, mint |-> mint,
           mintConfig |-> mintConfigPda, gatingProgram |-> gatingProgram]>>,
      mintConfig |-> mintConfigPda]

\* token-acl/setGatingProgram.ts: getSetGatingProgramInstructions
getSetGatingProgramInstructions(authority, mint, gatingProgram) ==
  <<[programAddress |-> TOKEN_ACL_PROGRAM_ID, kind |-> "setGatingProgram",
     authority |-> authority,
     mintConfig |-> findMintConfigPda(mint, TOKEN_ACL_PROGRAM_ID),
     newGatingProgram |-> IF gatingProgram = Undefined
                          THEN SYSTEM_PROGRAM_ADDRESS ELSE gatingProgram]>>

\* token-acl/enablePermissionlessThaw.ts
getEnablePermissionlessThawInstructions(authority, mint) ==
  <<[programAddress |-> TOKEN_ACL_PROGRAM_ID, kind |-> "togglePermissionless",
     authority |-> authority,
     mintConfig |-> findMintConfigPda(mint, TOKEN_ACL_PROGRAM_ID),
     thawEnabled |-> TRUE, freezeEnabled |-> FALSE]>>

\* @token-acl/abl-sdk: getSetupExtraMetasInstruction
getSetupExtraMetasInstruction(authority, mint, tokenAclMintConfig, extraMetas, lists) ==
  [programAddress |-> ABL_PROGRAM_ID, kind |-> "setupExtraMetas",
   authority |-> authority, mint |-> mint,
   tokenAclMintConfig |-> tokenAclMintConfig, extraMetas |-> extraMetas,
   lists |-> lists]

\* abl/setExtraMetas.ts: getSetExtraMetasInstructions({authority, mint,
\* lists}), as the set of its possible results. When the caller's object
\* has no `lists` property, input.lists is undefined and the generated
\* builder either fails on it or names no list.
getSetExtraMetasInstructions(input) ==
  LET instruction(lists) ==
        getSetupExtraMetasInstruction(
          input.authority, input.mint,
          findMintConfigPda(input.mint, TOKEN_ACL_PROGRAM_ID),
          findThawExtraMetasAccountPda(input.mint, ABL_PROGRAM_ID), lists)
  IN IF "lists" \notin DOMAIN input
     THEN {Throw("ListsUndefined"), Return(<<instruction(<<>>)>>)}
     ELSE {Return(<<instruction(input.lists)>>)}

\* new Token().with...().buildInstructions({...}): the instructions that
\* create and initialize the mint, taken as given.
TokenInstructions(a) ==
  <<[programAddress |-> SYSTEM_PROGRAM_ADDRESS, kind |-> "createAccount",
     payer |-> a.feePayer, newAccount |-> a.mint],
    [programAddress |-> TOKEN_2022_PROGRAM_ADDRESS, kind |-> "initializeMint",
     mint |-> a.mint, mintAuthority |-> a.mintAuthority]>>

\* aclMode || 'blocklist'; options?.aclMode ?? 'blocklist'
TemplateAclMode(a) == IF a.aclMode = Undefined THEN "blocklist" ELSE a.aclMode

\* enableSrfc37 ?? false; the arcade token template has no such switch.
TemplateUseSrfc37(a) ==
  IF a.op = ArcadeToken THEN TRUE
  ELSE a.enableSrfc37 = "true"

\* Mutant of AppendsSetup: the mint authority is not compared with the fee
\* payer.
AppendsSetupWhenEnabled(a) == TemplateUseSrfc37(a)

\* The negation of the early return:
\* if (mintAuthority !== feePayerSigner.address || !useSrfc37) return ...
AppendsSetup(a) == ~(a.mintAuthority # a.feePayer \/ ~TemplateUseSrfc37(a))

\* Mutant of TemplateListMode: a template called without aclMode creates
\* an allowlist.
TemplateListModeAllowByDefault(a) ==
  IF a.op = ArcadeToken \/ a.aclMode # "blocklist" THEN Allow ELSE Block

\* mode: Mode.Allow (arcade token);
\* mode: aclMode === 'allowlist' ? Mode.Allow : Mode.Block (the others)
TemplateListMode(a) ==
  IF a.op = ArcadeToken THEN Allow
  ELSE IF TemplateAclMode(a) = "allowlist" THEN Allow ELSE Block

\* The object the template hands to getSetExtraMetasInstructions: the
\* arcade token template passes `list: listConfig`, the others
\* `lists: [listConfig]`.
SetExtraMetasInput(a, listConfig) ==
  IF a.op = ArcadeToken
  THEN [authority |-> a.feePayer, mint |-> a.mint, list |-> listConfig]
  ELSE [authority |-> a.feePayer, mint |-> a.mint, lists |-> <<listConfig>>]

\* A caller invokes one of the three create...InitTransaction functions.
StartTemplate ==
  /\ pc = "idle"
  /\ \E template \in Templates, mint \in Mints, mintAuthority \in Authorities,
        feePayer \in Authorities :
       \E aclMode \in (IF template = ArcadeToken THEN {Undefined}
                        ELSE AclModes \cup {Undefined}),
          srfc37 \in (IF template = ArcadeToken THEN {Undefined}
                       ELSE {"true", "false", Undefined}) :
         args' = [op |-> template, mint |-> mint, account |-> NoAddr,
                  authority |-> mintAuthority, mintAuthority |-> mintAuthority,
                  amount |-> 0, feePayer |-> feePayer, aclMode |-> aclMode,
                  enableSrfc37 |-> srfc37]
  /\ pc' = "buildToken"
  /\ res' = Unset
  /\ md' = Unset
  /\ listPda' = NoAddr
  /\ list' = Unset
  /\ built' = <<>>
  /\ calls' = <<>>
  /\ outcome' = NoOutcome
  /\ UNCHANGED <<chain, applied, peer>>

\* The token builder's instructions are awaited and the early return is
\* decided.
BuildToken ==
  /\ pc = "buildToken"
  /\ built' = TokenInstructions(args)
  /\ pc' = IF AppendsSetup(args) THEN "setup" ELSE "blockhash"
  /\ UNCHANGED <<chain, applied, peer, args, res, md, listPda, list, calls, outcome>>

\* The access-control setup: the five (stablecoin: four) builders are
\* awaited in turn and their instructions pushed in that order.
SetupAccessControl ==
  /\ pc = "setup"
  /\ LET createConfig == getCreateConfigInstructions(args.feePayer, args.mint,
                                                     ABL_PROGRAM_ID)
         setGatingProgram ==
           IF args.op = Stablecoin THEN <<>>
           ELSE getSetGatingProgramInstructions(args.feePayer, args.mint,
                                                ABL_PROGRAM_ID)
         enablePermissionlessThaw ==
           getEnablePermissionlessThawInstructions(args.feePayer, args.mint)
         createList == getCreateListInstructions(args.feePayer, args.mint,
                                                 TemplateListMode(args))
     IN /\ listPda' = createList.listConfig
        /\ calls' = Append(calls, Derived("listConfig", createList.listConfig))
        /\ \E r \in getSetExtraMetasInstructions(
                       SetExtraMetasInput(args, createList.listConfig)) :
             IF r.kind = "throw"
             THEN /\ Fail(r.error)
                  /\ UNCHANGED built
             ELSE /\ built' = built \o createConfig.instructions
                                    \o setGatingProgram
                                    \o enablePermissionlessThaw
                                    \o createList.instructions
                                    \o r.value
                  /\ pc' = "blockhash"
                  /\ UNCHANGED outcome
  /\ UNCHANGED <<chain, applied, peer, args, res, md, list>>

InitTemplates ==
  /\ chain = BaseChain
  /\ pc = "idle"
  /\ args = Unset
  /\ res = Unset
  /\ md = Unset
  /\ listPda = NoAddr
  /\ list = Unset
  /\ built = <<>>
  /\ calls = <<>>
  /\ outcome = NoOutcome
  /\ applied = <<>>
  /\ peer = NotStarted

NextTemplates ==
  \/ StartTemplate
  \/ BuildToken
  \/ SetupAccessControl
  \/ Blockhash
  \/ Finish

SpecTemplates == InitTemplates /\ [][NextTemplates]_vars

---------------------------------------------------------------------------
(* Vocabulary of the properties.                                           *)

Running == pc # "idle"
Done == pc = "done"
AccessOpDone == Done /\ args.op \in AccessListOps
Returned == Done /\ outcome.status = "ok"

AccountResolved == Running /\ res # Unset
MintResolved == Running /\ md # Unset /\ "usesTokenAcl" \in DOMAIN md

\* The invocation computed enableSrfc37 and found it true / false.
GatingActive == AccountResolved /\ MintResolved /\ enableSrfc37(md)
GatingInactive == AccountResolved /\ MintResolved /\ ~enableSrfc37(md)

\* The list account at the address derived from (authority, mint).
ListOnChain == getAccountInfo(chain, findListConfigPda(args.authority, args.mint,
                                                       ABL_PROGRAM_ID))
RequiredMode(op) == IF op \in AllowlistOps THEN Allow ELSE Block
ModeMismatch == ListOnChain.exists /\ ListOnChain.info.mode # RequiredMode(args.op)
ModeMatch == ListOnChain.exists /\ ListOnChain.info.mode = RequiredMode(args.op)

Count(instrs, kinds) == Cardinality({i \in 1..Len(instrs) : instrs[i].kind \in kinds})
HasKind(instrs, kind) == \E i \in 1..Len(instrs) : instrs[i].kind = kind

DerivedList == \E i \in 1..Len(calls) :
                  calls[i].call = "derive" /\ calls[i].what = "listConfig"
DerivedAta == \E i \in 1..Len(calls) :
                 calls[i].call = "derive" /\ calls[i].what = "ata"
TouchedList == \E i \in 1..Len(calls) :
                  calls[i].call \in {"fetchListConfig", "getProgramAccounts"}

\* The two access-control paths of an invocation.
LegacyTaken == Returned /\ (HasKind(outcome.instructions, "freezeAccount")
                              \/ HasKind(outcome.instructions, "thawAccount"))
GatedTaken == DerivedList

---------------------------------------------------------------------------
(* C1: the mode guard.                                                     *)

\* C1 as stated: for every mint state and every resolved account state, an
\* access-list operation run against a list of the wrong mode fails with
\* the wrong-list-mode error and returns no instruction.  (Invocations that
\* already failed to resolve the account or the mint are left out: they
\* return no instruction either.)
C1_ModeGuardEveryState ==
  (AccessOpDone /\ AccountResolved /\ MintResolved /\ ModeMismatch) =>
     outcome = Failed("WrongListMode")

\* C1 amended: when the account and the mint resolve and enhanced gating is
\* active, an access-list operation run against a list of the wrong mode
\* fails with the wrong-list-mode error and returns no instruction.
C1_ModeGuardOnGatedPath ==
  (AccessOpDone /\ GatingActive /\ ModeMismatch) =>
     /\ outcome = Failed("WrongListMode")
     /\ built = <<>>

C1_Witness ==
  /\ AccessOpDone /\ GatingActive /\ ModeMismatch
  /\ args.op = AddToAllowlist
  /\ outcome.status = "error"

---------------------------------------------------------------------------
(* C2: freeze on revoke.                                                   *)

\* C2: on the gated path with a matching list, add-to-blocklist and
\* remove-from-allowlist return a freeze instruction exactly when the
\* resolved token account is initialized and not frozen.
C2_RevokeFreezesIffInitializedAndThawed ==
  (AccessOpDone /\ args.op \in RevokeOps /\ GatingActive /\ ModeMatch /\ Returned) =>
     (HasKind(outcome.instructions, "freeze")
        <=> (res.isInitialized /\ ~res.isFrozen))

---------------------------------------------------------------------------
(* C3: thaw on grant.                                                      *)

\* C3: on the gated path with a matching list, add-to-allowlist and
\* remove-from-blocklist always return, with a thaw instruction exactly
\* when the resolved token account is initialized and frozen; for an
\* uninitialized account the result is one membership instruction alone.
C3_GrantThawsIffInitializedAndFrozen ==
  (AccessOpDone /\ args.op \in GrantOps /\ GatingActive /\ ModeMatch) =>
     /\ Returned
     /\ HasKind(outcome.instructions, "thawPermissionless")
          <=> (res.isInitialized /\ res.isFrozen)
     /\ ~res.isInitialized =>
          /\ Len(outcome.instructions) = 1
          /\ Count(outcome.instructions, MembershipKinds) = 1
          /\ Count(outcome.instructions, FreezeThawKinds) = 0

C3_Witness ==
  /\ AccessOpDone /\ args.op = AddToAllowlist /\ GatingActive /\ ModeMatch
  /\ ~res.isInitialized
  /\ Len(outcome.instructions) = 1

---------------------------------------------------------------------------
(* C4: the legacy path.                                                    *)

\* The direct Token-2022 instruction C4 expects of each operation.
DirectKind(op) == IF op \in GrantOps THEN "thawAccount" ELSE "freezeAccount"

\* C4: when enhanced gating is not active, each access-list operation
\* returns exactly one instruction, the direct Token-2022 thaw (grant) or
\* freeze (revoke) of the resolved token account, whatever that account's
\* isInitialized / isFrozen, and derives, fetches and mutates no list.
C4_LegacyPathOneDirectInstruction ==
  (AccessOpDone /\ GatingInactive) =>
     /\ Returned
     /\ Len(outcome.instructions) = 1
     /\ outcome.instructions[1].kind = DirectKind(args.op)
     /\ outcome.instructions[1].programAddress = TOKEN_2022_PROGRAM_ADDRESS
     /\ outcome.instructions[1].account = res.tokenAccount
     /\ outcome.instructions[1].mint = args.mint
     /\ ~DerivedList /\ ~TouchedList /\ listPda = NoAddr
     /\ Count(outcome.instructions, MembershipKinds) = 0

C4_Witness ==
  /\ AccessOpDone /\ GatingInactive
  /\ args.op = AddToBlocklist
  /\ ~res.isInitialized
  /\ md.usesTokenAcl
  /\ ListOnChain.exists
  /\ Len(outcome.instructions) = 1

---------------------------------------------------------------------------
(* C5: legacy/gated exclusivity.                                           *)

\* C5: every invocation of an access-list operation that gets to choose a
\* path (its account and mint resolved) takes exactly one of the legacy
\* path and the gated path, and at no moment of any invocation have both
\* been taken.
C5_ExactlyOnePath ==
  /\ Running => ~(LegacyTaken /\ GatedTaken)
  /\ (AccessOpDone /\ AccountResolved /\ MintResolved) =>
        (LegacyTaken \/ GatedTaken)

C5_Witness ==
  /\ AccessOpDone /\ AccountResolved /\ MintResolved
  /\ GatedTaken /\ ~LegacyTaken
  /\ Returned

---------------------------------------------------------------------------
(* C6: the frozen default.                                                 *)

\* C6: every result of resolveTokenAccount with isInitialized = false has
\* isFrozen = true.
C6_FrozenDefault ==
  AccountResolved => (~res.isInitialized => res.isFrozen)

C6_Witness ==
  /\ AccountResolved /\ ~res.isInitialized /\ res.isFrozen
  /\ ~getAccountInfo(chain, args.account).exists

---------------------------------------------------------------------------
(* C7: ordering.                                                           *)

\* No freeze/thaw instruction stands before a membership instruction.
MembershipFirst(instrs) ==
  \A i, j \in 1..Len(instrs) :
     (instrs[i].kind \in FreezeThawKinds /\ instrs[j].kind \in MembershipKinds)
        => j < i

\* C7: in every instruction list an access-list operation returns, and in
\* the order in which it constructs its instructions, membership
\* instructions come before any freeze or thaw; remove-from-blocklist on
\* an initialized frozen account returns exactly [remove-wallet, thaw].
C7_MembershipBeforeFreezeThaw ==
  (Running /\ args.op \in AccessListOps) =>
     /\ MembershipFirst(built)
     /\ Returned => MembershipFirst(outcome.instructions)
     /\ (Returned /\ GatingActive) => outcome.instructions = built
     /\ (Done /\ args.op = RemoveFromBlocklist /\ GatingActive /\ ModeMatch
           /\ res.isInitialized /\ res.isFrozen) =>
          /\ Returned
          /\ Len(outcome.instructions) = 2
          /\ outcome.instructions[1].kind = "removeWallet"
          /\ outcome.instructions[2].kind = "thawPermissionless"

C7_Witness ==
  /\ Returned /\ args.op = RemoveFromBlocklist /\ GatingActive
  /\ res.isInitialized /\ res.isFrozen
  /\ Len(outcome.instructions) = 2

---------------------------------------------------------------------------
(* C8: one membership instruction of the right kind.                       *)

MembershipKind(op) ==
  IF op \in {AddToAllowlist, AddToBlocklist} THEN "addWallet" ELSE "removeWallet"

\* C8: on the gated path with a matching list, each access-list operation
\* returns exactly one membership instruction: add-wallet for the add
\* operations, remove-wallet for the remove operations, against the list
\* derived from (authority, mint).
C8_OneMembershipInstruction ==
  (AccessOpDone /\ GatingActive /\ ModeMatch) =>
     /\ Returned
     /\ Count(outcome.instructions, MembershipKinds) = 1
     /\ Count(outcome.instructions, {MembershipKind(args.op)}) = 1
     /\ \A i \in 1..Len(outcome.instructions) :
          outcome.instructions[i].kind \in MembershipKinds =>
            /\ outcome.instructions[i].programAddress = ABL_PROGRAM_ID
            /\ outcome.instructions[i].listConfig =
                 findListConfigPda(args.authority, args.mint, ABL_PROGRAM_ID)

C8_Witness ==
  /\ AccessOpDone /\ GatingActive /\ ModeMatch
  /\ args.op = AddToBlocklist
  /\ Len(outcome.instructions) = 2
  /\ outcome.instructions[1].kind = "addWallet"
  /\ outcome.instructions[1].listConfig = ListA1M1

---------------------------------------------------------------------------
(* C9: mint mismatch.                                                      *)

\* The supplied address is a Token-2022 token account of another mint.
SuppliedOtherMint ==
  LET acc == getAccountInfo(chain, args.account)
  IN /\ acc.exists /\ acc.owner = TOKEN_2022_PROGRAM_ADDRESS /\ acc.parsed
     /\ acc.info.mint # args.mint

\* C9: when the supplied address is a Token-2022 token account of another
\* mint, resolveTokenAccount fails with the mint-mismatch error without
\* deriving an associated token account, and the operation built on it
\* (any of the four access-list operations or createMintToTransaction)
\* fails with no instruction and without going any further.
C9_MintMismatch ==
  (Running /\ SuppliedOtherMint) =>
     /\ ~AccountResolved
     /\ ~DerivedAta
     /\ built = <<>>
     /\ pc \in {"resolveAccount", "done"}
     /\ Done => /\ outcome = Failed("MintMismatch")
                /\ calls = <<Fetched(args.account)>>

C9_Witness ==
  /\ Done /\ SuppliedOtherMint /\ args.op = MintTo
  /\ outcome.status = "error"

---------------------------------------------------------------------------
(* C10: invalid account.                                                   *)

SuppliedForeign ==
  LET acc == getAccountInfo(chain, args.account)
  IN acc.exists /\ acc.owner \notin {TOKEN_2022_PROGRAM_ADDRESS, SYSTEM_PROGRAM_ADDRESS}

SuppliedWalletLike ==
  LET acc == getAccountInfo(chain, args.account)
  IN ~acc.exists \/ acc.owner = SYSTEM_PROGRAM_ADDRESS

\* C10: when the supplied address is an account owned by neither Token-2022
\* nor the system program, resolveTokenAccount fails with the
\* invalid-account error and no associated token account is derived or
\* fetched; an absent or system-owned address never yields that error.
C10_InvalidAccount ==
  /\ (Running /\ SuppliedForeign) =>
        /\ ~AccountResolved
        /\ ~DerivedAta
        /\ Done => /\ outcome = Failed("InvalidAccount")
                   /\ calls = <<Fetched(args.account)>>
  /\ (Done /\ SuppliedWalletLike) =>
        ~(outcome.status = "error" /\ outcome.error = "InvalidAccount")

C10_Witness ==
  /\ Done /\ SuppliedForeign
  /\ outcome.status = "error"

---------------------------------------------------------------------------
(* C11: wallet resolution.                                                 *)

\* The associated token account of the supplied address, and its account.
SuppliedAta == getAssociatedTokenAccountAddress(args.mint, args.account,
                                                TOKEN_2022_PROGRAM_ADDRESS)
SuppliedAtaInfo == getAccountInfo(chain, SuppliedAta)

\* The supplied address is a Token-2022 token account of the mint.
SuppliedTokenAccount ==
  LET acc == getAccountInfo(chain, args.account)
  IN /\ acc.exists /\ acc.owner = TOKEN_2022_PROGRAM_ADDRESS /\ acc.parsed
     /\ acc.info.mint = args.mint

\* C11 as stated: for an absent or system-owned address the result names
\* the associated token account derived from (wallet, mint) under
\* Token-2022, with isInitialized true exactly when an account exists at
\* that address, isFrozen then being its frozen flag, and otherwise
\* {isInitialized: false, isFrozen: true}; for a Token-2022 token account
\* of the mint the result names the supplied address with its frozen flag.
C11_InitializedIffAccountExists ==
  /\ (AccountResolved /\ SuppliedWalletLike) =>
        /\ res.tokenAccount = SuppliedAta
        /\ res.isInitialized <=> SuppliedAtaInfo.exists
        /\ ~res.isInitialized => res.isFrozen
  /\ (AccountResolved /\ SuppliedTokenAccount) =>
        /\ res.tokenAccount = args.account
        /\ res.isFrozen <=>
              getAccountInfo(chain, args.account).info.state = "frozen"

\* C11 amended: as above, with isInitialized true exactly when the account
\* at the derived address exists and carries parsed token-account data.
C11_WalletResolution ==
  /\ (AccountResolved /\ SuppliedWalletLike) =>
        /\ res.tokenAccount = SuppliedAta
        /\ res.isInitialized <=> HasParsedInfo(SuppliedAtaInfo)
        /\ res.isInitialized =>
              (res.isFrozen <=> SuppliedAtaInfo.info.state = "frozen")
        /\ ~res.isInitialized => res.isFrozen
  /\ (AccountResolved /\ SuppliedTokenAccount) =>
        /\ res.tokenAccount = args.account
        /\ res.isInitialized
        /\ res.isFrozen <=>
              getAccountInfo(chain, args.account).info.state = "frozen"
  /\ AccountResolved => (SuppliedWalletLike \/ SuppliedTokenAccount)

C11_Witness ==
  /\ AccountResolved /\ SuppliedWalletLike
  /\ getAccountInfo(chain, args.account).exists
  /\ res.tokenAccount = SuppliedAta
  /\ res.isInitialized /\ ~res.isFrozen

---------------------------------------------------------------------------
(* C12: gating determination.                                              *)

\* The mint account of the invocation and, when it has one, the account at
\* its freeze authority's address.
MintOnChain == getAccountInfo(chain, args.mint)
FreezeAuthorityOnChain == MintOnChain.info.freezeAuthority
FreezeAuthorityAccount == getAccountInfo(chain, FreezeAuthorityOnChain)

\* The requests getMintDetails has made: those from its getAccountInfo of
\* the mint on (accounts and mints are different addresses).
MintDetailsCalls ==
  LET i == CHOOSE k \in 1..Len(calls) : calls[k] = Fetched(args.mint)
  IN SubSeq(calls, i, Len(calls))

\* getMintDetails has just returned to its caller.
MintDetailsReturned == pc = "branch"

\* C12: getMintDetails returns usesTokenAcl = true exactly when the mint's
\* freeze authority is set and the account at that address is owned by the
\* Token ACL program; with the freeze authority unset it returns false
\* after the single fetch of the mint, and with it set the one further
\* fetch is of the freeze authority's address.
C12_GatingDetermination ==
  /\ MintResolved =>
        /\ md.usesTokenAcl <=>
              /\ FreezeAuthorityOnChain # NoAddr
              /\ FreezeAuthorityAccount.exists
              /\ FreezeAuthorityAccount.owner = TOKEN_ACL_PROGRAM_ID
        /\ FreezeAuthorityOnChain = NoAddr => ~md.usesTokenAcl
  /\ MintDetailsReturned =>
        MintDetailsCalls =
          IF FreezeAuthorityOnChain = NoAddr
          THEN <<Fetched(args.mint)>>
          ELSE <<Fetched(args.mint), Fetched(FreezeAuthorityOnChain)>>
  /\ \A i \in 1..Len(calls) : calls[i] # Fetched(NoAddr)

C12_Witness ==
  /\ MintDetailsReturned /\ md.usesTokenAcl
  /\ FreezeAuthorityOnChain = FA_ACL
  /\ Len(MintDetailsCalls) = 2

---------------------------------------------------------------------------
(* C13: errors of getMintDetails.                                          *)

MintAbsent == ~getAccountInfo(chain, args.mint).exists
MintUnparsed == LET acc == getAccountInfo(chain, args.mint)
                IN acc.exists /\ ~acc.parsed

\* C13: with the mint account absent getMintDetails fails with the
\* not-found error, and with the account present but without parsed data
\* it fails with the parse error; in both cases nothing is returned, and
\* the operation that called it (an access-list operation or
\* createMintToTransaction) builds and returns no instruction.
C13_MintDetailsErrors ==
  (Running /\ args.op \in Ops /\ (MintAbsent \/ MintUnparsed)) =>
     /\ md = Unset
     /\ built = <<>>
     /\ outcome.status # "ok"
     /\ pc \in {"resolveAccount", "resolveAta", "mintDetails", "done"}
     /\ Done => outcome.instructions = <<>>
     /\ (Done /\ AccountResolved) =>
          outcome = Failed(IF MintAbsent THEN "MintNotFound" ELSE "ParseMint")

C13_Witness ==
  /\ Done /\ AccountResolved /\ MintUnparsed
  /\ args.op = MintTo
  /\ outcome = Failed("ParseMint")

---------------------------------------------------------------------------
(* C14: path selection.                                                    *)

\* The mint on-chain carries a default-account-state extension whose state
\* is frozen.
DefaultStateFrozenOnChain ==
  LET exts == MintOnChain.info.extensions
  IN \E e \in {exts[i] : i \in 1..Len(exts)} :
        e = [extension |-> "defaultAccountState",
             state |-> [accountState |-> "frozen"]]

\* createMintToTransaction treated gating as active: it thawed.
MintToThawed == HasKind(outcome.instructions, "thawPermissionless")

\* C14: an access-list operation takes the gated path exactly when
\* usesTokenAcl is true and the mint's extensions contain a default account
\* state that is frozen, and the legacy path otherwise;
\* createMintToTransaction thaws a frozen destination under exactly the
\* same condition.  A Token-ACL-owned freeze authority without a frozen
\* default, and a frozen default without a Token-ACL-owned freeze
\* authority, both give the legacy path.
C14_PathSelection ==
  /\ (AccessOpDone /\ AccountResolved /\ MintResolved) =>
        /\ GatedTaken <=> (md.usesTokenAcl /\ DefaultStateFrozenOnChain)
        /\ LegacyTaken <=> ~(md.usesTokenAcl /\ DefaultStateFrozenOnChain)
        /\ (md.usesTokenAcl /\ ~DefaultStateFrozenOnChain) => LegacyTaken
        /\ (DefaultStateFrozenOnChain /\ ~md.usesTokenAcl) => LegacyTaken
  /\ (Returned /\ args.op = MintTo) =>
        (MintToThawed <=>
           (res.isFrozen /\ md.usesTokenAcl /\ DefaultStateFrozenOnChain))

C14_Witness ==
  /\ AccessOpDone /\ AccountResolved /\ MintResolved
  /\ DefaultStateFrozenOnChain /\ ~md.usesTokenAcl
  /\ FreezeAuthorityOnChain = FA_USER
  /\ LegacyTaken /\ ~GatedTaken

---------------------------------------------------------------------------
(* C15: composed sequences reach the desired state.                        *)

LastApplied == applied[Len(applied)]

\* The state of a token account on-chain now.
StateOnChain(tokenAccount) == getAccountInfo(chain, tokenAccount).info.state

\* C15: on a gated mint, for a wallet whose token account is initialized,
\* executing the instructions a grant operation returned leaves the token
\* account thawed and executing those a revoke operation returned leaves it
\* frozen, whatever its state was before; and add-to-allowlist followed by
\* remove-from-allowlist for the same wallet, each composed against the
\* then-current state and executed, ends with the wallet not a member and
\* the token account frozen.
C15_ComposedSequencesReachState ==
  /\ (applied # <<>> /\ LastApplied.gated /\ LastApplied.isInitialized
        /\ LastApplied.account # LastApplied.tokenAccount) =>
        StateOnChain(LastApplied.tokenAccount) =
          IF LastApplied.op \in GrantOps THEN "initialized" ELSE "frozen"
  /\ (/\ Len(applied) = 2
      /\ applied[1].op = AddToAllowlist /\ applied[2].op = RemoveFromAllowlist
      /\ applied[1].gated /\ applied[2].gated
      /\ applied[1].isInitialized
      /\ applied[1].account # applied[1].tokenAccount
      /\ applied[1].mint = applied[2].mint
      /\ applied[1].account = applied[2].account
      /\ applied[1].authority = applied[2].authority) =>
        /\ ~IsMember(chain, getListConfigPda(applied[2].authority, applied[2].mint),
                     applied[2].account)
        /\ StateOnChain(applied[2].tokenAccount) = "frozen"

---------------------------------------------------------------------------
(* C16: createList.                                                        *)

NetworkCalls ==
  {i \in 1..Len(calls) :
     calls[i].call \in {"getAccountInfo", "fetchListConfig",
                        "getProgramAccounts", "getLatestBlockhash",
                        "resolveExtraMetas"}}

\* C16: getCreateListInstructions makes no network request and checks no
\* account, whether or not the list already exists; it returns exactly one
\* create-list instruction and the list address derived from (authority,
\* mint) under the ABL program, and the instruction carries the caller's
\* mode when one is given and Allow when it is left out.
C16_CreateList ==
  (Done /\ args.op = CreateListOp) =>
     /\ NetworkCalls = {}
     /\ outcome.status = "ok"
     /\ Len(outcome.instructions) = 1
     /\ outcome.instructions[1].kind = "createList"
     /\ outcome.instructions[1].programAddress = ABL_PROGRAM_ID
     /\ outcome.instructions[1].authority = args.authority
     /\ outcome.instructions[1].seed = args.mint
     /\ outcome.listConfig = <<"list", ABL_PROGRAM_ID, args.authority[1], args.mint[1]>>
     /\ outcome.instructions[1].listConfig = outcome.listConfig
     /\ outcome.instructions[1].mode =
          IF args.mode = Undefined THEN Allow ELSE args.mode

C16_Witness ==
  /\ Done /\ args.op = CreateListOp
  /\ args.mode = Block
  /\ outcome.instructions[1].mode = Block
  /\ ListOnChain.exists

---------------------------------------------------------------------------
(* C17: getList.                                                           *)

\* The wallets that the chain records as entries of the list.
EntriesOnChain(c, listConfig) ==
  {a \in DOMAIN c :
     /\ c[a].exists /\ c[a].owner = ABL_PROGRAM_ID /\ c[a].parsed
     /\ "walletAddress" \in DOMAIN c[a].info
     /\ c[a].info.listConfig = listConfig}

GetListReturned ==
  pc = "done" /\ args.op = GetListOp /\ outcome.status = "ok"

\* C17: getList(L) returns, in scan order and once each, the wallet
\* addresses of exactly the wallet entries whose back-reference is L, no
\* entry of another list among them, and its configuration part is what
\* getListConfig(L) reads: L itself, with the mode, seed and authority of
\* the account at L.
C17_GetList ==
  GetListReturned =>
    LET l == outcome.value
        entries == EntriesOnChain(chain, args.listConfig)
    IN /\ Len(l.wallets) = Cardinality(entries)
       /\ {l.wallets[i] : i \in 1..Len(l.wallets)}
            = {chain[a].info.walletAddress : a \in entries}
       /\ \A i \in 1..Len(l.wallets) :
            IsMember(chain, args.listConfig, l.wallets[i])
       /\ l.listConfig = args.listConfig
       /\ l.mode = chain[args.listConfig].info.mode
       /\ l.seed = chain[args.listConfig].info.seed
       /\ l.authority = chain[args.listConfig].info.authority

\* getList returned the wallets of a list while another list holds an
\* entry for a wallet that is not on this one.
C17_Witness ==
  /\ GetListReturned
  /\ Len(outcome.value.wallets) >= 1
  /\ \E other \in Lists \ {args.listConfig} :
       \E a \in EntriesOnChain(chain, other) :
         ~IsMember(chain, args.listConfig, chain[a].info.walletAddress)

---------------------------------------------------------------------------
(* C18: getAllListConfigs against getListConfig.                           *)

\* The list-configuration accounts of the ABL program on-chain.
ListConfigsOnChain(c) ==
  {a \in DOMAIN c :
     /\ c[a].exists /\ c[a].owner = ABL_PROGRAM_ID /\ c[a].parsed
     /\ "mode" \in DOMAIN c[a].info}

\* What getListConfig({rpc, listConfig}) returns for an account on-chain.
getListConfig(c, listConfig) ==
  [listConfig |-> listConfig, mode |-> c[listConfig].info.mode,
   seed |-> c[listConfig].info.seed, authority |-> c[listConfig].info.authority]

GetAllListConfigsFinished == pc = "done" /\ args.op = GetAllListConfigsOp

\* C18: getAllListConfigs returns exactly one entry for the address of
\* every list-configuration account of the ABL program on-chain, and the
\* entry's mode, seed and authority are those getListConfig returns for
\* that address.
C18_AllListConfigsAgree ==
  GetAllListConfigsFinished =>
    /\ outcome.status = "ok"
    /\ LET l == outcome.value
       IN /\ Len(l) = Cardinality(ListConfigsOnChain(chain))
          /\ \A a \in ListConfigsOnChain(chain) :
               \E i \in 1..Len(l) :
                 /\ l[i].listConfig = a
                 /\ l[i].mode = getListConfig(chain, a).mode
                 /\ l[i].seed = getListConfig(chain, a).seed
                 /\ l[i].authority = getListConfig(chain, a).authority

---------------------------------------------------------------------------
(* C19: transaction assembly.                                              *)

\* The payer the caller supplied: the authority for the four access-list
\* transactions, the payer argument otherwise.
SuppliedPayer ==
  IF args.op \in AccessListOps THEN args.authority ELSE args.feePayer

BlockhashCalls(log) == {i \in 1..Len(log) : log[i].call = "getLatestBlockhash"}

\* The transaction carries the composed instructions as they are, is paid
\* by the supplied payer and is anchored at the blockhash of the request
\* that was made after the instructions were composed, the only such one.
Assembles(transaction, composed, before, after) ==
  /\ transaction.instructions = composed
  /\ transaction.feePayer = SuppliedPayer
  /\ BlockhashCalls(before) = {}
  /\ Len(after) = Len(before) + 1
  /\ SubSeq(after, 1, Len(before)) = before
  /\ after[Len(after)].call = "getLatestBlockhash"
  /\ transaction.latestBlockhash = after[Len(after)].value

BuilderAssembled == pc = "assembled"

\* C19: every builder returns a transaction whose instructions are exactly
\* those its get*Instructions call returned (for createMintToTransaction,
\* those it composed), in the same order, whose fee payer is the supplied
\* payer (the authority for the four access-list transactions) and whose
\* lifetime anchor is the blockhash fetched after the composition.
C19_AssemblyPreservesSequence ==
  [][/\ (pc = "done" /\ pc' = "assembled") =>
          Assembles(outcome'.transaction, outcome.instructions, calls, calls')
     /\ (pc = "blockhash" /\ pc' = "done") =>
          Assembles(outcome', built, calls, calls')]_vars

\* An access-list builder assembled a two-instruction transaction.
C19_Witness ==
  /\ BuilderAssembled
  /\ args.op \in AccessListOps
  /\ Len(outcome.transaction.instructions) = 2
  /\ outcome.transaction.instructions[1] # outcome.transaction.instructions[2]
  /\ outcome.transaction.latestBlockhash = "blockhash2"

---------------------------------------------------------------------------
(* C20: round trip of the encoded transaction.                             *)

\* The instructions of a message, read from position p on.
RECURSIVE DecodeInstructions(_, _, _, _)
DecodeInstructions(bytes, p, count, keys) ==
  IF count = 0 THEN <<>>
  ELSE LET accounts == bytes[p + 1]
           size == bytes[p + 2 + accounts]
       IN <<[programAddress |-> keys[bytes[p] + 1],
             accounts |-> [i \in 1..accounts |-> keys[bytes[p + 1 + i] + 1]],
             data |-> SubSeq(bytes, p + 3 + accounts, p + 2 + accounts + size)]>>
          \o DecodeInstructions(bytes, p + 3 + accounts + size, count - 1, keys)

\* The transaction that message bytes spell: the first static account pays
\* the fee, the instructions name their accounts by index.
DecodeMessage(bytes) ==
  LET n == bytes[4]
      keys == [i \in 1..n |->
                 BytesAddress(SubSeq(bytes, 5 + AddressWidth * (i - 1),
                                     4 + AddressWidth * i))]
      p == 5 + AddressWidth * n
  IN [feePayer |-> keys[1],
      latestBlockhash |-> SubSeq(bytes, p, p + AddressWidth - 1),
      instructions |-> DecodeInstructions(bytes, p + AddressWidth + 1,
                                          bytes[p + AddressWidth], keys)]

\* A decoded transaction has the fee payer of the original and, in the
\* same order, instructions of the same program, accounts and data bytes.
SameTransaction(decoded, transaction) ==
  /\ decoded.feePayer = transaction.feePayer
  /\ decoded.latestBlockhash = BlockhashBytes(transaction.latestBlockhash)
  /\ Len(decoded.instructions) = Len(transaction.instructions)
  /\ \A i \in 1..Len(transaction.instructions) :
       LET ix == transaction.instructions[i]
       IN /\ decoded.instructions[i].programAddress
               = ProgramAddress(ix.programAddress)
          /\ decoded.instructions[i].accounts
               = [k \in 1..Len(InstructionAccounts(ix)) |->
                    InstructionAccounts(ix)[k].address]
          /\ decoded.instructions[i].data = InstructionData(ix)

Encoding == pc = "encode"

---------------------------------------------------------------------------
(* C27: the token account changes between the two reads.                   *)

\* A revoke on the gated path ended at or after getFreezeInstructions'
\* own read of the token account.
SecondReadDone ==
  /\ Done /\ args.op \in RevokeOps
  /\ built # <<>>
  /\ calls[Len(calls)] = Fetched(res.tokenAccount)

TokenAccountNow == getAccountInfo(chain, res.tokenAccount)

\* C27: add-to-blocklist and remove-from-allowlist read the token account
\* a second time in getFreezeInstructions. If by then it is closed or
\* cannot be parsed, the operation fails with the not-found or parse error
\* and returns nothing, although the membership instruction was built;
\* otherwise the freeze instruction carries the mint read at that second
\* read.
C27_StaleSnapshot ==
  SecondReadDone =>
    IF ~TokenAccountNow.exists
    THEN outcome = Failed("TokenAccountNotFound")
    ELSE IF ~TokenAccountNow.parsed
    THEN outcome = Failed("ParseTokenAccountData")
    ELSE /\ outcome.status = "ok"
         /\ Len(outcome.instructions) = 2
         /\ outcome.instructions[2].kind = "freeze"
         /\ outcome.instructions[2].mint = TokenAccountNow.info.mint
         /\ outcome.instructions[2].mintConfig
              = findMintConfigPda(TokenAccountNow.info.mint, TOKEN_ACL_PROGRAM_ID)

\* The account was closed between the reads: add-to-blocklist had built
\* its membership instruction and returned an error.
C27_Witness ==
  /\ SecondReadDone
  /\ args.op = AddToBlocklist
  /\ Len(applied) = 1
  /\ ~TokenAccountNow.exists
  /\ outcome.status = "error"
  /\ Len(built) = 1

---------------------------------------------------------------------------
(* C22: a failure ends the operation.                                      *)

IsPrefix(s, t) == Len(s) <= Len(t) /\ SubSeq(t, 1, Len(s)) = s

\* The step in which a request or a check fails.
FailingStep == outcome.status # "error" /\ outcome'.status = "error"

---------------------------------------------------------------------------
(* C25: no list at the derived address.                                    *)

MembershipBuilt == \E i \in 1..Len(built) : built[i].kind \in MembershipKinds

\* C25: on the gated path with no list account at the derived address,
\* each of the four operations fails at the list fetch of its mode guard
\* and returns no instruction; and whenever a membership instruction has
\* been built, the mode of the very list it names was fetched and passed
\* the guard.
C25_MissingList ==
  /\ (AccessOpDone /\ GatingActive /\ ~ListOnChain.exists) =>
       /\ outcome = Failed("ListConfigNotFound")
       /\ calls[Len(calls)] = FetchedListConfig(listPda)
       /\ built = <<>>
  /\ (Running /\ args.op \in AccessListOps /\ MembershipBuilt) =>
       /\ list # Unset
       /\ ModeGuard(args.op, list)
       /\ \A i \in 1..Len(built) :
            built[i].kind \in MembershipKinds => built[i].listConfig = list.listConfig

\* add-to-blocklist on a gated mint for which the authority has no list.
C25_Witness ==
  /\ AccessOpDone
  /\ args.op = AddToBlocklist
  /\ GatingActive
  /\ ~ListOnChain.exists
  /\ outcome.status = "error"

---------------------------------------------------------------------------
(* C26: the freeze authority of the mint has no account.                   *)

MintParsedOnChain == HasParsedInfo(MintOnChain)

FreezeAuthorityGone ==
  /\ MintParsedOnChain
  /\ FreezeAuthorityOnChain # NoAddr
  /\ ~FreezeAuthorityAccount.exists

\* C26: when the mint names a freeze authority at whose address there is
\* no account, getMintDetails fails with the freeze-authority-not-found
\* error and neither the four access-list operations nor the mint-to
\* builder return or build any instruction; a mint with no freeze
\* authority resolves with usesTokenAcl = false.
C26_FreezeAuthorityMissing ==
  /\ (Running /\ args.op \in Ops /\ FreezeAuthorityGone) =>
       /\ built = <<>>
       /\ outcome.status # "ok"
       /\ pc \in {"resolveAccount", "resolveAta", "mintDetails",
                  "freezeAuthority", "done"}
       /\ Done => outcome.instructions = <<>>
       /\ (Done /\ AccountResolved) =>
            /\ outcome = Failed("FreezeAuthorityNotFound")
            /\ calls[Len(calls)] = Fetched(FreezeAuthorityOnChain)
  /\ (Running /\ args.op \in Ops /\ MintParsedOnChain
        /\ FreezeAuthorityOnChain = NoAddr) =>
       /\ pc # "freezeAuthority"
       /\ (AccountResolved /\ pc # "mintDetails") =>
            /\ MintResolved
            /\ ~md.usesTokenAcl
            /\ outcome.status = "error" =>
                 outcome.error \notin {"MintNotFound", "ParseMint",
                                       "FreezeAuthorityNotFound"}

\* Minting a token whose freeze authority has no account.
C26_Witness ==
  /\ Done /\ AccountResolved
  /\ args.op = MintTo
  /\ FreezeAuthorityGone
  /\ outcome = Failed("FreezeAuthorityNotFound")

---------------------------------------------------------------------------
(* C28: the order of createMintToTransaction's instructions.               *)

MintToReturned == Returned /\ args.op = MintTo

\* C28: the transaction createMintToTransaction returns starts with the
\* idempotent creation of the resolved token account and ends with the
\* mint-to into that account; between them there is a permissionless thaw
\* of that account exactly when the account was resolved as frozen (a
\* token account not yet created counts as frozen) and enhanced gating is
\* active, and nothing else; on a legacy mint there is no thaw.
C28_MintToOrder ==
  MintToReturned =>
    LET instrs == outcome.instructions
        n == Len(instrs)
        thaws == res.isFrozen /\ enableSrfc37(md)
    IN /\ n = (IF thaws THEN 3 ELSE 2)
       /\ instrs[1].kind = "createAtaIdempotent"
       /\ instrs[1].ata = res.tokenAccount
       /\ instrs[n].kind = "mintTo"
       /\ instrs[n].token = res.tokenAccount
       /\ thaws => /\ instrs[2].kind = "thawPermissionless"
                   /\ instrs[2].tokenAccount = res.tokenAccount
       /\ ~getAccountInfo(chain, res.tokenAccount).exists => res.isFrozen
       /\ ~enableSrfc37(md) => ~HasKind(instrs, "thawPermissionless")

\* Minting to a wallet of a gated mint whose token account does not exist
\* yet: create, thaw, mint.
C28_Witness ==
  /\ MintToReturned
  /\ enableSrfc37(md)
  /\ ~getAccountInfo(chain, res.tokenAccount).exists
  /\ Len(outcome.instructions) = 3
  /\ outcome.instructions[2].kind = "thawPermissionless"

---------------------------------------------------------------------------
(* C23: one derivation of the list address.                                *)

\* The address getCreateListInstructions returns for the same authority
\* and mint, whatever the mode.
CreatedListAddress ==
  getCreateListInstructions(args.authority, args.mint, Undefined).listConfig

\* C23: the address getCreateListInstructions returns, the address
\* getListConfigPda returns, and the address that the four access-list
\* operations fetch for the mode guard, scan for entries and put into the
\* membership instruction are one and the same function of (authority,
\* mint) under the ABL program, whichever mode the list is created with.
C23_OneListAddress ==
  /\ (Running /\ args.op \in AccessListOps \cup {CreateListOp}) =>
       /\ CreatedListAddress = getListConfigPda(args.authority, args.mint)
       /\ \A mode \in Modes :
            getCreateListInstructions(args.authority, args.mint, mode).listConfig
              = CreatedListAddress
  /\ (Running /\ args.op \in AccessListOps) =>
       /\ listPda \in {NoAddr, CreatedListAddress}
       /\ \A i \in 1..Len(calls) :
            /\ calls[i].call = "derive" /\ calls[i].what = "listConfig"
                 => calls[i].address = CreatedListAddress
            /\ calls[i].call = "fetchListConfig"
                 => calls[i].address = CreatedListAddress
            /\ calls[i].call = "getProgramAccounts"
                 => calls[i].listConfig = CreatedListAddress
       /\ \A i \in 1..Len(built) :
            built[i].kind \in MembershipKinds =>
              /\ built[i].listConfig = CreatedListAddress
              /\ built[i].programAddress = ABL_PROGRAM_ID
  /\ (Done /\ args.op = CreateListOp) =>
       /\ outcome.listConfig = getListConfigPda(args.authority, args.mint)
       /\ outcome.instructions[1].listConfig = outcome.listConfig

\* remove-from-blocklist has fetched the list and built its membership
\* instruction at the address a list creation by the same authority for
\* the same mint returns.
C23_Witness ==
  /\ AccessOpDone
  /\ args.op = RemoveFromBlocklist
  /\ MembershipBuilt
  /\ built[1].listConfig = CreatedListAddress
  /\ \E i \in 1..Len(calls) : calls[i] = FetchedListConfig(CreatedListAddress)

---------------------------------------------------------------------------
(* C24: whose membership an operation changes.                             *)

\* The wallet that owns the resolved token account: the owner recorded in
\* the account, or, for an associated token account not yet created, the
\* wallet it was derived from.
ResolvedOwner ==
  LET acc == getAccountInfo(chain, res.tokenAccount)
  IN IF HasParsedInfo(acc) THEN acc.info.owner ELSE args.account

\* C24: on the gated path, also when the caller passes the address of an
\* existing token account, the membership instruction names the wallet
\* that owns the resolved token account (its entry is the one derived from
\* that wallet and the list), and the owner handed to the permissionless
\* thaw is that wallet.
C24_MembershipKeyedByOwner ==
  (Running /\ args.op \in AccessListOps /\ MembershipBuilt) =>
    \A i \in 1..Len(built) :
      /\ built[i].kind \in MembershipKinds =>
           built[i].walletEntry
             = findWalletEntryPda(ResolvedOwner, built[i].listConfig, ABL_PROGRAM_ID)
      /\ built[i].kind = "addWallet" => built[i].wallet = ResolvedOwner
      /\ built[i].kind = "thawPermissionless" =>
           built[i].tokenAccountOwner = ResolvedOwner

---------------------------------------------------------------------------
(* C21: two invocations in flight.                                         *)

\* What an access-list operation returns when it runs from its call to its
\* return with nothing in between, against the store c.
RunAlone(c, a) ==
  LET r0 == ResolveSuppliedAccount(getAccountInfo(c, a.account), a.account, a.mint)
      ata == getAssociatedTokenAccountAddress(a.mint, a.account,
                                              TOKEN_2022_PROGRAM_ADDRESS)
      r == IF r0.kind = "return" THEN r0.value
           ELSE ResolveDerivedAccount(getAccountInfo(c, ata), ata)
      m0 == MintDetailsFromMint(getAccountInfo(c, a.mint))
      m1 == IF m0.kind = "await"
            THEN MintDetailsFromFreezeAuthority(
                   getAccountInfo(c, a.mint).info,
                   getAccountInfo(c, getAccountInfo(c, a.mint).info.freezeAuthority))
            ELSE m0
      l == DeriveListConfig(a.op, a.authority, a.mint)
      acc == getAccountInfo(c, l)
      mem == MembershipInstructions(a.op, a.authority, l, a.account)
      next == FollowUp(a.op, r, TRUE)
      f == FreezeFromTokenAccount(getAccountInfo(c, r.tokenAccount),
                                  a.authority, r.tokenAccount)
  IN IF r0.kind = "throw" THEN Failed(r0.error)
     ELSE IF m1.kind = "throw" THEN Failed(m1.error)
     ELSE IF ~enableSrfc37(m1.value)
     THEN Succeeded(LegacyInstructions(a.op, r.tokenAccount, a.mint, a.authority))
     ELSE IF ~acc.exists THEN Failed("ListConfigNotFound")
     ELSE IF ~ModeGuard(a.op, acc.info) THEN Failed("WrongListMode")
     ELSE IF next = "none" THEN Succeeded(ReturnedInstructions(mem, <<>>))
     ELSE IF next = "thaw"
     THEN Succeeded(ReturnedInstructions(
            mem, getThawPermissionlessInstructions(a.authority, a.mint,
                                                   r.tokenAccount, a.account)))
     ELSE IF f.kind = "throw" THEN Failed(f.error)
     ELSE Succeeded(ReturnedInstructions(mem, f.value))

\* Both invocations have returned.
BothReturned == pc = "done" /\ peer.pc = "done"

\* C21: with two access-list operations in flight, continued in any order
\* at their awaits, each returns what it returns when run alone against
\* the same store with the same arguments; two invocations with the same
\* arguments (two grants for the same list and wallet among them) return
\* the same; and what one has built or requested is never visible in the
\* other's result.
C21_Independent ==
  /\ Done => outcome = RunAlone(chain, args)
  /\ peer.pc = "done" => peer.outcome = RunAlone(chain, peer.args)
  /\ (BothReturned /\ args = peer.args) => outcome = peer.outcome

\* Two add-to-allowlist calls for the same list and wallet ran interleaved
\* (each made requests while the other was waiting) and both returned the
\* membership instruction and the thaw.
C21_Witness ==
  /\ BothReturned
  /\ args = peer.args
  /\ args.op = AddToAllowlist
  /\ outcome.status = "ok"
  /\ Len(outcome.instructions) = 2
  /\ Len(calls) >= 5

---------------------------------------------------------------------------
(* C29: when the templates append the access-control setup.                *)

TemplateReturned == Returned /\ args.op \in Templates

\* What a returned template transaction holds after the token builder's
\* instructions.
SetupInstructions ==
  SubSeq(outcome.instructions, Len(TokenInstructions(args)) + 1,
         Len(outcome.instructions))

Kinds(instrs) == [i \in 1..Len(instrs) |-> instrs[i].kind]

\* C29: the stablecoin and tokenized-security templates append the
\* access-control setup to the token's own instructions exactly when
\* enableSrfc37 is true and the mint authority is the fee payer's address;
\* the setup is create-mint-config, set-gating-program (tokenized security
\* only), enable-permissionless-thaw, create-list, set-extra-metas, in that
\* order; and the list is created in mode Allow exactly when aclMode is
\* 'allowlist', and in mode Block otherwise, also when aclMode is left out.
C29_SetupAppended ==
  (TemplateReturned /\ args.op \in {Stablecoin, TokenizedSecurity}) =>
    /\ SubSeq(outcome.instructions, 1, Len(TokenInstructions(args)))
         = TokenInstructions(args)
    /\ SetupInstructions # <<>> <=>
         (args.enableSrfc37 = "true" /\ args.mintAuthority = args.feePayer)
    /\ SetupInstructions # <<>> =>
         /\ Kinds(SetupInstructions) =
              IF args.op = TokenizedSecurity
              THEN <<"createConfig", "setGatingProgram", "togglePermissionless",
                     "createList", "setupExtraMetas">>
              ELSE <<"createConfig", "togglePermissionless", "createList",
                     "setupExtraMetas">>
         /\ \A i \in 1..Len(SetupInstructions) :
              SetupInstructions[i].kind = "createList" =>
                SetupInstructions[i].mode =
                  IF args.aclMode = "allowlist" THEN Allow ELSE Block

\* A stablecoin with gating enabled, paid by its mint authority, created
\* without aclMode: four setup instructions, the list a blocklist.
C29_Witness ==
  /\ TemplateReturned
  /\ args.op = Stablecoin
  /\ args.aclMode = Undefined
  /\ args.enableSrfc37 = "true"
  /\ Len(SetupInstructions) = 4
  /\ SetupInstructions[3].mode = Block

---------------------------------------------------------------------------
(* C30: the list the mint is bound to.                                     *)

\* C30: in each of the three templates, when the setup is appended, the
\* set-extra-metas instruction names exactly one list, the address that
\* the create-list instruction of the same transaction creates, which is
\* the list address of (fee payer, mint).
C30_SetupBindsCreatedList ==
  (TemplateReturned /\ HasKind(outcome.instructions, "createList")) =>
    \A i, j \in 1..Len(outcome.instructions) :
      (/\ outcome.instructions[i].kind = "createList"
       /\ outcome.instructions[j].kind = "setupExtraMetas") =>
         /\ outcome.instructions[j].lists
              = <<outcome.instructions[i].listConfig>>
         /\ outcome.instructions[i].listConfig
              = getListConfigPda(args.feePayer, args.mint)

=============================================================================
